---- MODULE Spec2Model ----
(***************************************************************************)
(* Persistence and analytics layer of the financial sentiment backend      *)
(* (backend/database.py): the posts table, the ticker / sector / industry  *)
(* catalog, the three post-to-dimension link tables, and the read queries  *)
(* built on them.                                                          *)
(*                                                                         *)
(* Conventions                                                             *)
(*   - Python None / SQL NULL is NONE for strings and numbers, NoDate for  *)
(*     timestamps (None and '' are both falsy in `if start_date:`).        *)
(*   - A timestamp is a tuple <<year, day-of-year, hour>>, a date-only     *)
(*     string is <<year, day-of-year>>; SQLite compares the ISO-8601 TEXT  *)
(*     values bytewise, which on zero-padded fields is the lexicographic   *)
(*     order of these tuples (a proper prefix sorts first).                *)
(*   - Scores are hundredths (90 is 0.90); percentages are hundredths of   *)
(*     a percent (3333 is 33.33).                                          *)
(*   - A table with a rowid is a set of rows; a link table is a bag of     *)
(*     <<post_id, dimension_id>> pairs, so a duplicated pair is visible.   *)
(***************************************************************************)
EXTENDS Integers, Sequences, FiniteSets, Bags, TLC

VARIABLES posts, tickers, sectors, industries,
          post_tickers, post_industries, post_sectors,
          last, saved, conns

vars == <<posts, tickers, sectors, industries,
          post_tickers, post_industries, post_sectors, last, saved, conns>>

tables == <<posts, tickers, sectors, industries,
            post_tickers, post_industries, post_sectors>>

-----------------------------------------------------------------------------
(* Values *)

NONE == "None"

NoDate == <<>>

Labels == {"positive", "negative", "neutral"}

TruthyStr(x) == x # NONE /\ x # ""

TruthyDate(d) == d # NoDate

TruthyList(s) == Len(s) > 0

Range(s) == {s[i] : i \in 1..Len(s)}

(* the orders of the elements of a finite set, as sequences *)
Perms(S) ==
    {s \in [1..Cardinality(S) -> S] :
        \A i, j \in 1..Cardinality(S) : i # j => s[i] # s[j]}

(* bytewise TEXT comparison a <= b of two ISO-8601 strings *)
RECURSIVE LexLeq(_, _)
LexLeq(a, b) ==
    IF Len(a) = 0 THEN TRUE
    ELSE IF Len(b) = 0 THEN FALSE
    ELSE IF Head(a) < Head(b) THEN TRUE
    ELSE IF Head(a) > Head(b) THEN FALSE
    ELSE LexLeq(Tail(a), Tail(b))

(* the sum of the values of a function with a finite domain *)
RECURSIVE SumFn(_)
SumFn(f) ==
    IF DOMAIN f = {} THEN 0
    ELSE LET x == CHOOSE y \in DOMAIN f : TRUE
         IN  f[x] + SumFn([y \in DOMAIN f \ {x} |-> f[y]])

-----------------------------------------------------------------------------
(* Bounds of the model *)

MaxPosts == 2

MaxListLen == 2

MaxStatPosts == 5

MaxPulsePosts == 3

PostName == <<"p1", "reddit_p2", "p3", "reddit_p4">>

PostIds == {PostName[i] : i \in 1..MaxPosts}

(* str.replace('reddit_', '') on the ids of the model *)
StripReddit(s) ==
    CASE s = "reddit_p2" -> "p2"
      [] s = "reddit_p4" -> "p4"
      [] OTHER -> s

-----------------------------------------------------------------------------
(* Schema: the constraints of the tables the queries run against *)

PK_posts_id == TRUE

UNIQUE_tickers_symbol == TRUE

UNIQUE_sectors_name == TRUE

UNIQUE_industries_name == TRUE

(* variant: the link table without its pair constraint *)
UNIQUE_post_tickers_dropped == FALSE

UNIQUE_post_tickers == TRUE

UNIQUE_post_industries == TRUE

UNIQUE_post_sectors == TRUE

(* INTEGER PRIMARY KEY rowid of a new row *)
NextId(table) ==
    IF table = {} THEN 1
    ELSE 1 + (CHOOSE m \in {r.id : r \in table} : \A r \in table : r.id <= m)

(* variant: an UPDATE of the sentiment columns of the stored row, its other
   columns kept *)
InsertOrReplacePost_merge(table, row) ==
    IF PK_posts_id /\ \E r \in table : r.id = row.id
    THEN {IF r.id = row.id
          THEN [r EXCEPT !.sentiment_label = row.sentiment_label,
                         !.sentiment_score = row.sentiment_score,
                         !.sentiment_scores = row.sentiment_scores]
          ELSE r : r \in table}
    ELSE table \cup {row}

(* variant: INSERT OR IGNORE, the stored row wins over the new one *)
InsertOrReplacePost_ignore(table, row) ==
    IF PK_posts_id /\ \E r \in table : r.id = row.id
    THEN table
    ELSE table \cup {row}

(* INSERT OR REPLACE INTO posts: rows that conflict on the key are deleted *)
InsertOrReplacePost(table, row) ==
    {r \in table : ~(PK_posts_id /\ r.id = row.id)} \cup {row}

(* INSERT OR IGNORE INTO sectors|industries (name) VALUES (?) *)
InsertOrIgnoreName(table, name, unique) ==
    IF unique /\ \E r \in table : r.name = name
    THEN table
    ELSE table \cup {[id |-> NextId(table), name |-> name]}

(* INSERT OR IGNORE INTO post_<dim> (post_id, <dim>_id) VALUES (?, ?) *)
InsertOrIgnoreLink(links, pair, unique) ==
    IF unique /\ BagIn(pair, links)
    THEN links
    ELSE links (+) SetToBag({pair})

(* variant: the DELETE has no WHERE clause and clears the table *)
DeleteLinksOf_all(links, post_id) == EmptyBag

(* DELETE FROM post_<dim> WHERE post_id = ? *)
DeleteLinksOf(links, post_id) ==
    LET keep == {e \in BagToSet(links) : e[1] # post_id}
    IN  [e \in keep |-> links[e]]

(* SELECT id FROM <table> WHERE name = ? ; fetchone(): 0 when there is no row
   (rowids start at 1; a NULL sector_id / industry_id is 0 as well) *)
SelectIdByName(table, name) ==
    IF \E r \in table : r.name = name
    THEN (CHOOSE r \in table : r.name = name).id
    ELSE 0

SelectIdBySymbol(table, symbol) ==
    IF \E r \in table : r.symbol = symbol
    THEN (CHOOSE r \in table : r.symbol = symbol).id
    ELSE 0

-----------------------------------------------------------------------------
(* json.dumps / json.loads of the score distribution: the stored column is
   the JSON text of the mapping, never the mapping itself and never '' *)

JsonDumps(x) == [json |-> x]

JsonLoads(s) == s.json

-----------------------------------------------------------------------------
(* Connections: one per client, opened and closed by _get_connection *)

(* c1 is the writer of the step-by-step specifications, c2 the reader or the
   second writer *)
Clients == {"c1", "c2"}

(* the arguments of a call, as one record over every parameter name *)
NoArgs ==
    [id |-> "", pd |-> [none |-> TRUE], symbols |-> << >>,
     industries |-> << >>, sectors |-> << >>,
     symbol |-> "", company |-> "", sector |-> "", industry |-> ""]

(* a client outside any repository call. work holds the working copy of the
   open transaction and before the database at the start of a write call, each
   as a sequence of one database, empty when there is none *)
IdleConn ==
    [pc |-> "idle", open |-> FALSE, op |-> "", args |-> NoArgs, stmts |-> << >>,
     txn |-> FALSE, work |-> << >>, before |-> << >>, done |-> 0,
     during |-> FALSE, err |-> "", ret |-> [none |-> TRUE]]

-----------------------------------------------------------------------------
Init ==
    /\ conns = [c \in Clients |-> IdleConn]
    /\ posts = {}
    /\ tickers = {}
    /\ sectors = {}
    /\ industries = {}
    /\ post_tickers = EmptyBag
    /\ post_industries = EmptyBag
    /\ post_sectors = EmptyBag
    /\ last = [op |-> "init"]
    /\ saved = [id \in {} |-> 0]

(* the with-block raised: rollback, every table as before the call *)
Raise(op, args, err) ==
    /\ last' = [op |-> op, args |-> args, ok |-> FALSE, err |-> err]
    /\ UNCHANGED <<tables, saved, conns>>

-----------------------------------------------------------------------------
(* PostRepository *)

Get(d, k, default) == IF k \in DOMAIN d THEN d[k] ELSE default

RequiredPostKeys == {"id", "text", "created_at", "sentiment"}

RequiredSentimentKeys == {"label", "score", "scores"}

PostRow(pd, now) ==
    [id |-> pd.id,
     reddit_id |-> Get(pd, "reddit_id", StripReddit(Get(pd, "id", ""))),
     url |-> Get(pd, "url", Get(pd, "link", "")),
     subreddit |-> Get(pd, "subreddit", ""),
     title |-> Get(pd, "title", ""),
     text |-> pd.text,
     author |-> Get(pd, "author", Get(pd, "author_id", "unknown")),
     created_at |-> pd.created_at,
     timezone |-> Get(pd, "timezone", "UTC"),
     sentiment_label |-> pd.sentiment.label,
     sentiment_score |-> pd.sentiment.score,
     sentiment_scores |-> JsonDumps(pd.sentiment.scores),
     analyzed_at |-> now]

(* variant: no rollback, the row REPLACE cleared for the id stays deleted when
   the call fails *)
save_post_norollback(pd, now) ==
    IF ~(RequiredPostKeys \subseteq DOMAIN pd)
          \/ ~(RequiredSentimentKeys \subseteq DOMAIN pd.sentiment)
    THEN /\ posts' = {r \in posts : ~("id" \in DOMAIN pd /\ r.id = pd.id)}
         /\ last' = [op |-> "save_post", args |-> pd, ok |-> FALSE, err |-> "KeyError"]
         /\ UNCHANGED <<tickers, sectors, industries,
                        post_tickers, post_industries, post_sectors, saved, conns>>
    ELSE /\ posts' = InsertOrReplacePost(posts, PostRow(pd, now))
         /\ last' = [op |-> "save_post", args |-> pd, ok |-> TRUE, ret |-> pd.id]
         /\ saved' = [id \in DOMAIN saved \cup {pd.id} |->
                         IF id = pd.id THEN [data |-> pd, at |-> now] ELSE saved[id]]
         /\ UNCHANGED <<tickers, sectors, industries,
                        post_tickers, post_industries, post_sectors, conns>>

save_post(pd, now) ==
    IF ~(RequiredPostKeys \subseteq DOMAIN pd)
          \/ ~(RequiredSentimentKeys \subseteq DOMAIN pd.sentiment)
    THEN Raise("save_post", pd, "KeyError")
    ELSE /\ posts' = InsertOrReplacePost(posts, PostRow(pd, now))
         /\ last' = [op |-> "save_post", args |-> pd, ok |-> TRUE, ret |-> pd.id]
         /\ saved' = [id \in DOMAIN saved \cup {pd.id} |->
                         IF id = pd.id THEN [data |-> pd, at |-> now] ELSE saved[id]]
         /\ UNCHANGED <<tickers, sectors, industries,
                        post_tickers, post_industries, post_sectors, conns>>

_row_to_post(row) ==
    [id |-> row.id,
     reddit_id |-> row.reddit_id,
     url |-> row.url,
     subreddit |-> row.subreddit,
     title |-> row.title,
     text |-> row.text,
     author |-> row.author,
     created_at |-> row.created_at,
     timezone |-> row.timezone,
     sentiment |-> [label |-> row.sentiment_label,
                    score |-> row.sentiment_score,
                    scores |-> JsonLoads(row.sentiment_scores)],
     analyzed_at |-> row.analyzed_at]

get_post_by_id(post_id) ==
    /\ \/ /\ \E row \in posts : row.id = post_id
          /\ \E row \in {r \in posts : r.id = post_id} :
                last' = [op |-> "get_post_by_id", args |-> post_id, ok |-> TRUE,
                         found |-> TRUE, ret |-> _row_to_post(row)]
       \/ /\ ~\E row \in posts : row.id = post_id
          /\ last' = [op |-> "get_post_by_id", args |-> post_id, ok |-> TRUE,
                      found |-> FALSE, ret |-> NONE]
    /\ UNCHANGED <<tables, saved, conns>>

-----------------------------------------------------------------------------
(* TickerRepository *)

(* variant: ON CONFLICT(symbol) DO NOTHING, the stored row is kept *)
UpsertTicker_keep(table, symbol, company_name, sector_id, industry_id) ==
    IF UNIQUE_tickers_symbol /\ \E r \in table : r.symbol = symbol
    THEN table
    ELSE table \cup {[id |-> NextId(table), symbol |-> symbol,
                      company_name |-> company_name,
                      sector_id |-> sector_id, industry_id |-> industry_id]}

(* INSERT INTO tickers ... ON CONFLICT(symbol) DO UPDATE SET company_name,
   sector_id, industry_id = excluded.* *)
UpsertTicker(table, symbol, company_name, sector_id, industry_id) ==
    IF UNIQUE_tickers_symbol /\ \E r \in table : r.symbol = symbol
    THEN {IF r.symbol = symbol
          THEN [r EXCEPT !.company_name = company_name,
                         !.sector_id = sector_id,
                         !.industry_id = industry_id]
          ELSE r : r \in table}
    ELSE table \cup {[id |-> NextId(table), symbol |-> symbol,
                      company_name |-> company_name,
                      sector_id |-> sector_id, industry_id |-> industry_id]}

save_ticker(symbol, company_name, sector, industry) ==
    LET sectors1 == IF TruthyStr(sector)
                    THEN InsertOrIgnoreName(sectors, sector, UNIQUE_sectors_name)
                    ELSE sectors
        sector_id == IF TruthyStr(sector) THEN SelectIdByName(sectors1, sector) ELSE 0
        industries1 == IF TruthyStr(industry)
                       THEN InsertOrIgnoreName(industries, industry, UNIQUE_industries_name)
                       ELSE industries
        industry_id == IF TruthyStr(industry)
                       THEN SelectIdByName(industries1, industry) ELSE 0
        tickers1 == UpsertTicker(tickers, symbol, company_name, sector_id, industry_id)
    IN  /\ sectors' = sectors1
        /\ industries' = industries1
        /\ tickers' = tickers1
        /\ last' = [op |-> "save_ticker",
                    args |-> <<symbol, company_name, sector, industry>>,
                    ok |-> TRUE, ret |-> SelectIdBySymbol(tickers1, symbol)]
        /\ UNCHANGED <<posts, post_tickers, post_industries, post_sectors, saved, conns>>

(* bytewise order of the symbols of the model, for ORDER BY t.symbol *)
SymbolOrder == <<"AAPL", "MSFT", "ZZZZ">>

SymbolRank(symbol) == CHOOSE i \in 1..Len(SymbolOrder) : SymbolOrder[i] = symbol

(* ORDER BY t.symbol *)
OrderBySymbol(S) ==
    {s \in Perms(S) :
        \A i \in 1..(Cardinality(S) - 1) :
            SymbolRank(s[i].symbol) <= SymbolRank(s[i + 1].symbol)}

(* the name a LEFT JOIN on the id yields: NULL when no row has the id *)
LeftJoinName(table, id) ==
    IF \E r \in table : r.id = id
    THEN (CHOOSE r \in table : r.id = id).name
    ELSE NONE

TickerEntry(t) ==
    [symbol |-> t.symbol, company_name |-> t.company_name,
     sector |-> LeftJoinName(sectors, t.sector_id),
     industry |-> LeftJoinName(industries, t.industry_id)]

get_tickers ==
    /\ \E ordered \in OrderBySymbol(tickers) :
          last' = [op |-> "get_tickers", args |-> << >>, ok |-> TRUE,
                   ret |-> [i \in 1..Len(ordered) |-> TickerEntry(ordered[i])]]
    /\ UNCHANGED <<tables, saved, conns>>

(* the loop body of the linking calls over the looked-up ids, in list order:
   a value with no catalog row (id 0) is skipped *)
RECURSIVE InsertLinks(_, _, _, _)
InsertLinks(links, post_id, ids, unique) ==
    IF Len(ids) = 0 THEN links
    ELSE InsertLinks(IF Head(ids) # 0
                     THEN InsertOrIgnoreLink(links, <<post_id, Head(ids)>>, unique)
                     ELSE links,
                     post_id, Tail(ids), unique)

(* the dimension ids a post is linked to *)
LinkedIds(links, post_id) == {e[2] : e \in {x \in BagToSet(links) : x[1] = post_id}}

(* variant: the DELETE of the old links is missing (a merge) *)
link_post_to_tickers_merge(post_id, ticker_symbols) ==
    LET ids == [i \in 1..Len(ticker_symbols) |->
                   SelectIdBySymbol(tickers, ticker_symbols[i])]
    IN  /\ post_tickers' = InsertLinks(post_tickers, post_id, ids, UNIQUE_post_tickers)
        /\ last' = [op |-> "link_post_to_tickers", post_id |-> post_id,
                    symbols |-> ticker_symbols, ok |-> TRUE,
                    old |-> LinkedIds(post_tickers, post_id)]
        /\ UNCHANGED <<posts, tickers, sectors, industries,
                       post_industries, post_sectors, saved, conns>>

(* variant: an unresolved symbol is an error and the call rolls back *)
link_post_to_tickers_strict(post_id, ticker_symbols) ==
    LET ids == [i \in 1..Len(ticker_symbols) |->
                   SelectIdBySymbol(tickers, ticker_symbols[i])]
    IN  IF \E i \in 1..Len(ids) : ids[i] = 0
        THEN /\ last' = [op |-> "link_post_to_tickers", post_id |-> post_id,
                         symbols |-> ticker_symbols, ok |-> FALSE,
                         old |-> LinkedIds(post_tickers, post_id)]
             /\ UNCHANGED <<tables, saved, conns>>
        ELSE /\ post_tickers' = InsertLinks(DeleteLinksOf(post_tickers, post_id),
                                            post_id, ids, UNIQUE_post_tickers)
             /\ last' = [op |-> "link_post_to_tickers", post_id |-> post_id,
                         symbols |-> ticker_symbols, ok |-> TRUE,
                         old |-> LinkedIds(post_tickers, post_id)]
             /\ UNCHANGED <<posts, tickers, sectors, industries,
                            post_industries, post_sectors, saved, conns>>

link_post_to_tickers(post_id, ticker_symbols) ==
    LET ids == [i \in 1..Len(ticker_symbols) |->
                   SelectIdBySymbol(tickers, ticker_symbols[i])]
    IN  /\ post_tickers' = InsertLinks(DeleteLinksOf(post_tickers, post_id),
                                       post_id, ids, UNIQUE_post_tickers)
        /\ last' = [op |-> "link_post_to_tickers", post_id |-> post_id,
                    symbols |-> ticker_symbols, ok |-> TRUE,
                    old |-> LinkedIds(post_tickers, post_id)]
        /\ UNCHANGED <<posts, tickers, sectors, industries,
                       post_industries, post_sectors, saved, conns>>

(* variant: only the industry links are cleared, the sector links are merged *)
link_post_to_industries_and_sectors_keep(post_id, industry_names, sector_names) ==
    LET iids == [i \in 1..Len(industry_names) |->
                    SelectIdByName(industries, industry_names[i])]
        sids == [i \in 1..Len(sector_names) |->
                    SelectIdByName(sectors, sector_names[i])]
    IN  /\ post_industries' = InsertLinks(DeleteLinksOf(post_industries, post_id),
                                          post_id, iids, UNIQUE_post_industries)
        /\ post_sectors' = InsertLinks(post_sectors, post_id, sids, UNIQUE_post_sectors)
        /\ last' = [op |-> "link_post_to_industries_and_sectors",
                    post_id |-> post_id,
                    industries |-> industry_names, sectors |-> sector_names,
                    ok |-> TRUE,
                    old_industries |-> LinkedIds(post_industries, post_id),
                    old_sectors |-> LinkedIds(post_sectors, post_id)]
        /\ UNCHANGED <<posts, tickers, sectors, industries, post_tickers, saved, conns>>

link_post_to_industries_and_sectors(post_id, industry_names, sector_names) ==
    LET iids == [i \in 1..Len(industry_names) |->
                    SelectIdByName(industries, industry_names[i])]
        sids == [i \in 1..Len(sector_names) |->
                    SelectIdByName(sectors, sector_names[i])]
    IN  /\ post_industries' = InsertLinks(DeleteLinksOf(post_industries, post_id),
                                          post_id, iids, UNIQUE_post_industries)
        /\ post_sectors' = InsertLinks(DeleteLinksOf(post_sectors, post_id),
                                       post_id, sids, UNIQUE_post_sectors)
        /\ last' = [op |-> "link_post_to_industries_and_sectors",
                    post_id |-> post_id,
                    industries |-> industry_names, sectors |-> sector_names,
                    ok |-> TRUE,
                    old_industries |-> LinkedIds(post_industries, post_id),
                    old_sectors |-> LinkedIds(post_sectors, post_id)]
        /\ UNCHANGED <<posts, tickers, sectors, industries, post_tickers, saved, conns>>

-----------------------------------------------------------------------------
(* SQL building blocks of the filtered queries *)

(* rows of  p INNER JOIN post_tickers pt ON p.id = pt.post_id
              INNER JOIN tickers t ON pt.ticker_id = t.id  WHERE t.symbol = ?
   for one post row p *)
JoinTickers(p, symbol) ==
    LET ts == {t \in tickers : t.symbol = symbol}
    IN  SumFn([t \in ts |-> CopiesIn(<<p.id, t.id>>, post_tickers)])

JoinIndustries(p, name) ==
    LET is == {i \in industries : i.name = name}
    IN  SumFn([i \in is |-> CopiesIn(<<p.id, i.id>>, post_industries)])

JoinSectors(p, name) ==
    LET ss == {x \in sectors : x.name = name}
    IN  SumFn([x \in ss |-> CopiesIn(<<p.id, x.id>>, post_sectors)])

(* p.created_at >= ? *)
CreatedGeq(p, d) == LexLeq(d, p.created_at)

(* p.created_at <= ? *)
CreatedLeq(p, d) == LexLeq(p.created_at, d)

Bit(b) == IF b THEN 1 ELSE 0

(* ORDER BY created_at DESC: every order of the rows the clause allows *)
OrderByCreatedDesc(S) ==
    {s \in Perms(S) :
        \A i \in 1..(Cardinality(S) - 1) : LexLeq(s[i + 1].created_at, s[i].created_at)}

(* LIMIT ? OFFSET ? (a negative LIMIT is no limit, a negative OFFSET is 0) *)
LimitOffset(rows, limit, offset) ==
    LET n == Len(rows)
        off == IF offset < 0 THEN 0 ELSE IF offset > n THEN n ELSE offset
        cnt == IF limit < 0 \/ limit > n - off THEN n - off ELSE limit
    IN  SubSeq(rows, off + 1, off + cnt)

-----------------------------------------------------------------------------
(* PostRepository: recent posts *)

(* SELECT ... FROM posts ORDER BY created_at DESC LIMIT ? OFFSET ? *)
get_recent_posts(limit, offset) ==
    /\ \E ordered \in OrderByCreatedDesc(posts) :
          LET page == LimitOffset(ordered, limit, offset)
          IN  last' = [op |-> "get_recent_posts", limit |-> limit, offset |-> offset,
                       ok |-> TRUE,
                       ret |-> [i \in 1..Len(page) |-> _row_to_post(page[i])]]
    /\ UNCHANGED <<tables, saved, conns>>

-----------------------------------------------------------------------------
(* PostRepository: filtered listing and count *)

(* variant: the criteria are OR-combined (a union of the dimensions) *)
PostsFilteredJoin_union(p, f) ==
    LET supplied == TruthyStr(f.ticker) \/ TruthyStr(f.industry) \/ TruthyStr(f.sector)
                    \/ TruthyStr(f.sentiment) \/ TruthyDate(f.start_date)
                    \/ TruthyDate(f.end_date)
    IN  IF ~supplied THEN 1
        ELSE  (IF TruthyStr(f.ticker) THEN JoinTickers(p, f.ticker) ELSE 0)
            + (IF TruthyStr(f.industry) THEN JoinIndustries(p, f.industry) ELSE 0)
            + (IF TruthyStr(f.sector) THEN JoinSectors(p, f.sector) ELSE 0)
            + Bit(TruthyStr(f.sentiment) /\ p.sentiment_label = f.sentiment)
            + Bit(TruthyDate(f.start_date) /\ CreatedGeq(p, f.start_date))
            + Bit(TruthyDate(f.end_date) /\ CreatedLeq(p, f.end_date))

(* join rows the query of get_posts_filtered yields for post row p *)
PostsFilteredJoin(p, f) ==
      (IF TruthyStr(f.ticker) THEN JoinTickers(p, f.ticker) ELSE 1)
    * (IF TruthyStr(f.industry) THEN JoinIndustries(p, f.industry) ELSE 1)
    * (IF TruthyStr(f.sector) THEN JoinSectors(p, f.sector) ELSE 1)
    * Bit(TruthyStr(f.sentiment) => p.sentiment_label = f.sentiment)
    * Bit(TruthyDate(f.start_date) => CreatedGeq(p, f.start_date))
    * Bit(TruthyDate(f.end_date) => CreatedLeq(p, f.end_date))

(* SELECT DISTINCT p.* *)
PostsFilteredRows(f) == {p \in posts : PostsFilteredJoin(p, f) > 0}

get_posts_filtered(f, limit, offset) ==
    /\ \E ordered \in OrderByCreatedDesc(PostsFilteredRows(f)) :
          LET page == LimitOffset(ordered, limit, offset)
          IN  last' = [op |-> "get_posts_filtered", args |-> f,
                       limit |-> limit, offset |-> offset, ok |-> TRUE,
                       ret |-> [i \in 1..Len(page) |-> _row_to_post(page[i])]]
    /\ UNCHANGED <<tables, saved, conns>>

(* variant: the count query lost its industry join *)
CountFilteredJoin_noindustry(p, f) ==
      (IF TruthyStr(f.ticker) THEN JoinTickers(p, f.ticker) ELSE 1)
    * (IF TruthyStr(f.sector) THEN JoinSectors(p, f.sector) ELSE 1)
    * Bit(TruthyStr(f.sentiment) => p.sentiment_label = f.sentiment)
    * Bit(TruthyDate(f.start_date) => CreatedGeq(p, f.start_date))
    * Bit(TruthyDate(f.end_date) => CreatedLeq(p, f.end_date))

(* join rows the query of count_posts_filtered yields for post row p *)
CountFilteredJoin(p, f) ==
      (IF TruthyStr(f.ticker) THEN JoinTickers(p, f.ticker) ELSE 1)
    * (IF TruthyStr(f.industry) THEN JoinIndustries(p, f.industry) ELSE 1)
    * (IF TruthyStr(f.sector) THEN JoinSectors(p, f.sector) ELSE 1)
    * Bit(TruthyStr(f.sentiment) => p.sentiment_label = f.sentiment)
    * Bit(TruthyDate(f.start_date) => CreatedGeq(p, f.start_date))
    * Bit(TruthyDate(f.end_date) => CreatedLeq(p, f.end_date))

(* SELECT COUNT(DISTINCT p.id) *)
CountPostsFiltered(f) ==
    Cardinality({p.id : p \in {q \in posts : CountFilteredJoin(q, f) > 0}})

count_posts_filtered(f) ==
    /\ last' = [op |-> "count_posts_filtered", args |-> f, ok |-> TRUE,
                ret |-> CountPostsFiltered(f)]
    /\ UNCHANGED <<tables, saved, conns>>

-----------------------------------------------------------------------------
(* AnalyticsRepository: sentiment statistics *)

(* variant: the quotient is truncated instead of rounded *)
RoundDiv_floor(n, d) == n \div d

(* round(n / d, 0) for n >= 0, d > 0: nearest, a tie to the even neighbour *)
RoundDiv(n, d) ==
    LET q == n \div d
        r == n % d
    IN  IF 2 * r < d THEN q
        ELSE IF 2 * r > d THEN q + 1
        ELSE IF q % 2 = 0 THEN q ELSE q + 1

(* round((count / total) * 100, 2) in hundredths of a percent;
   -1 stands for the ZeroDivisionError of count / 0 *)
Percentage(count, total) ==
    IF total = 0 THEN -1 ELSE RoundDiv(count * 10000, total)

(* variant: the stats query compares the end date strictly *)
StatsJoin_strictend(p, f) ==
      (IF TruthyStr(f.ticker) THEN JoinTickers(p, f.ticker) ELSE 1)
    * (IF TruthyStr(f.industry) THEN JoinIndustries(p, f.industry) ELSE 1)
    * (IF TruthyStr(f.sector) THEN JoinSectors(p, f.sector) ELSE 1)
    * Bit(TruthyDate(f.start_date) => CreatedGeq(p, f.start_date))
    * Bit(TruthyDate(f.end_date) =>
             CreatedLeq(p, f.end_date) /\ p.created_at # f.end_date)

(* join rows the query of get_sentiment_stats yields for post row p
   (the argument list has no sentiment criterion) *)
StatsJoin(p, f) ==
      (IF TruthyStr(f.ticker) THEN JoinTickers(p, f.ticker) ELSE 1)
    * (IF TruthyStr(f.industry) THEN JoinIndustries(p, f.industry) ELSE 1)
    * (IF TruthyStr(f.sector) THEN JoinSectors(p, f.sector) ELSE 1)
    * Bit(TruthyDate(f.start_date) => CreatedGeq(p, f.start_date))
    * Bit(TruthyDate(f.end_date) => CreatedLeq(p, f.end_date))

(* SELECT sentiment_label, COUNT(all) ... GROUP BY sentiment_label: label -> count,
   one row per label that occurs among the join rows *)
StatsRows(f) ==
    LET hit == {p \in posts : StatsJoin(p, f) > 0}
    IN  [l \in {p.sentiment_label : p \in hit} |->
            SumFn([p \in {q \in hit : q.sentiment_label = l} |-> StatsJoin(p, f)])]

(* variant: a percentage for each of the three labels, without the total > 0 test *)
SentimentStats_unguarded(f) ==
    LET rows == StatsRows(f)
        total == SumFn(rows)
        count(l) == IF l \in DOMAIN rows THEN rows[l] ELSE 0
    IN  [total |-> total,
         by_sentiment |->
            [l \in Labels \cup DOMAIN rows |->
                [count |-> count(l), percentage |-> Percentage(count(l), total)]]]

(* the dictionary built from the rows; percentages only when total > 0 *)
SentimentStats(f) ==
    LET rows == StatsRows(f)
        total == SumFn(rows)
    IN  [total |-> total,
         by_sentiment |->
            IF total > 0
            THEN [l \in DOMAIN rows |->
                     [count |-> rows[l], percentage |-> Percentage(rows[l], total)]]
            ELSE [l \in DOMAIN rows |-> [count |-> rows[l]]]]

get_sentiment_stats(f) ==
    LET stats == SentimentStats(f)
    IN  IF \E l \in DOMAIN stats.by_sentiment :
              "percentage" \in DOMAIN stats.by_sentiment[l]
              /\ stats.by_sentiment[l].percentage = -1
        THEN Raise("get_sentiment_stats", f, "ZeroDivisionError")
        ELSE /\ last' = [op |-> "get_sentiment_stats", args |-> f, ok |-> TRUE,
                         ret |-> stats]
             /\ UNCHANGED <<tables, saved, conns>>

-----------------------------------------------------------------------------
(* Calendar arithmetic of the trend buckets and of the default cutoff *)

YearLen(y) == IF y % 4 = 0 /\ (y % 100 # 0 \/ y % 400 = 0) THEN 366 ELSE 365

(* weekday of January 1st, in days since Monday (2024-01-01 is a Monday) *)
RECURSIVE Jan1Weekday(_)
Jan1Weekday(y) ==
    IF y = 2024 THEN 0
    ELSE IF y > 2024 THEN (Jan1Weekday(y - 1) + YearLen(y - 1)) % 7
    ELSE (Jan1Weekday(y + 1) + 7 * 53 - YearLen(y)) % 7

(* DATE(created_at) *)
DateOf(ts) == <<ts[1], ts[2]>>

(* strftime('%Y-W%W', created_at): the year and the week of the year, 00..53,
   weeks starting on Monday and week 01 starting on the first Monday *)
WeekOf(ts) ==
    LET doy0 == ts[2] - 1
        wd == (Jan1Weekday(ts[1]) + doy0) % 7
    IN  <<ts[1], (doy0 + 7 - wd) \div 7>>

(* (datetime.utcnow() - timedelta(days=days)).isoformat() *)
RECURSIVE DaysBefore(_, _)
DaysBefore(now, days) ==
    IF days < now[2] THEN <<now[1], now[2] - days, now[3]>>
    ELSE DaysBefore(<<now[1] - 1, YearLen(now[1] - 1), now[3]>>, days - now[2])

-----------------------------------------------------------------------------
(* AnalyticsRepository: trends *)

(* variant: the trends query lost its sector join *)
TrendsJoin_nosector(p, f, days, now) ==
      (IF TruthyStr(f.ticker) THEN JoinTickers(p, f.ticker) ELSE 1)
    * (IF TruthyStr(f.industry) THEN JoinIndustries(p, f.industry) ELSE 1)
    * Bit(IF TruthyDate(f.start_date) THEN CreatedGeq(p, f.start_date)
          ELSE IF ~TruthyDate(f.end_date) THEN CreatedGeq(p, DaysBefore(now, days))
          ELSE TRUE)
    * Bit(TruthyDate(f.end_date) => CreatedLeq(p, f.end_date))

(* variant: the default cutoff is applied whenever start_date is unset, an
   end_date or not *)
TrendsJoin_alwayscutoff(p, f, days, now) ==
      (IF TruthyStr(f.ticker) THEN JoinTickers(p, f.ticker) ELSE 1)
    * (IF TruthyStr(f.industry) THEN JoinIndustries(p, f.industry) ELSE 1)
    * (IF TruthyStr(f.sector) THEN JoinSectors(p, f.sector) ELSE 1)
    * Bit(IF TruthyDate(f.start_date) THEN CreatedGeq(p, f.start_date)
          ELSE CreatedGeq(p, DaysBefore(now, days)))
    * Bit(TruthyDate(f.end_date) => CreatedLeq(p, f.end_date))

(* join rows the query of get_sentiment_trends yields for post row p; f carries
   ticker, industry, sector, start_date, end_date *)
TrendsJoin(p, f, days, now) ==
      (IF TruthyStr(f.ticker) THEN JoinTickers(p, f.ticker) ELSE 1)
    * (IF TruthyStr(f.industry) THEN JoinIndustries(p, f.industry) ELSE 1)
    * (IF TruthyStr(f.sector) THEN JoinSectors(p, f.sector) ELSE 1)
    * Bit(IF TruthyDate(f.start_date) THEN CreatedGeq(p, f.start_date)
          ELSE IF ~TruthyDate(f.end_date) THEN CreatedGeq(p, DaysBefore(now, days))
          ELSE TRUE)
    * Bit(TruthyDate(f.end_date) => CreatedLeq(p, f.end_date))

TrendBucket(p, granularity) ==
    IF granularity = "week" THEN WeekOf(p.created_at) ELSE DateOf(p.created_at)

(* the dictionary entry of one bucket: zeros for the three labels, then one
   assignment per (bucket, label) row *)
TrendEntry(date, f, days, granularity, now) ==
    LET hit == {p \in posts : TrendsJoin(p, f, days, now) > 0
                              /\ TrendBucket(p, granularity) = date}
        found == {p.sentiment_label : p \in hit}
    IN  [k \in {"date"} \cup Labels \cup found |->
            IF k = "date" THEN date
            ELSE IF k \in found
            THEN SumFn([p \in {q \in hit : q.sentiment_label = k} |->
                           TrendsJoin(p, f, days, now)])
            ELSE 0]

(* variant: ORDER BY date, oldest bucket first *)
OrderByDateDesc_asc(S) ==
    {s \in Perms(S) :
        \A i \in 1..(Cardinality(S) - 1) : LexLeq(s[i], s[i + 1])}

(* ORDER BY date DESC on the bucket keys *)
OrderByDateDesc(S) ==
    {s \in Perms(S) :
        \A i \in 1..(Cardinality(S) - 1) : LexLeq(s[i + 1], s[i])}

get_sentiment_trends(days, f, granularity, now) ==
    LET dates == {TrendBucket(p, granularity) :
                     p \in {q \in posts : TrendsJoin(q, f, days, now) > 0}}
    IN  /\ \E ordered \in OrderByDateDesc(dates) :
              last' = [op |-> "get_sentiment_trends", args |-> f, days |-> days,
                       granularity |-> granularity, now |-> now, ok |-> TRUE,
                       ret |-> [i \in 1..Len(ordered) |->
                                   TrendEntry(ordered[i], f, days, granularity, now)]]
        /\ UNCHANGED <<tables, saved, conns>>

-----------------------------------------------------------------------------
(* AnalyticsRepository: market pulse *)

TopN == 10

MinPosts == 3

(* the date_filter fragment: AND p.created_at >= ? AND p.created_at <= ? *)
PulseDateOk(p, start_date, end_date) ==
    /\ TruthyDate(start_date) => CreatedGeq(p, start_date)
    /\ TruthyDate(end_date) => CreatedLeq(p, end_date)

(* one GROUP BY t.symbol row of tickers JOIN post_tickers JOIN posts over the
   post rows P: COUNT(DISTINCT p.id), and the sum and number of the join rows
   AVG(p.sentiment_score) is taken over *)
SymbolGroup(symbol, P) ==
    LET hit == {p \in P : JoinTickers(p, symbol) > 0}
    IN  [symbol |-> symbol,
         post_count |-> Cardinality({p.id : p \in hit}),
         score_sum |-> SumFn([p \in hit |-> p.sentiment_score * JoinTickers(p, symbol)]),
         rows |-> SumFn([p \in hit |-> JoinTickers(p, symbol)])]

SymbolGroups(P) ==
    {g \in {SymbolGroup(sym, P) : sym \in {t.symbol : t \in tickers}} : g.rows > 0}

(* LIMIT 10 *)
Top(rows) == SubSeq(rows, 1, IF Len(rows) > TopN THEN TopN ELSE Len(rows))

(* ORDER BY post_count DESC *)
OrderByPostCountDesc(S) ==
    {s \in Perms(S) :
        \A i \in 1..(Cardinality(S) - 1) : s[i].post_count >= s[i + 1].post_count}

(* ORDER BY avg_sentiment DESC, the averages compared as fractions *)
OrderByAvgDesc(S) ==
    {s \in Perms(S) :
        \A i \in 1..(Cardinality(S) - 1) :
            s[i].score_sum * s[i + 1].rows >= s[i + 1].score_sum * s[i].rows}

(* ORDER BY avg_sentiment ASC *)
OrderByAvgAsc(S) ==
    {s \in Perms(S) :
        \A i \in 1..(Cardinality(S) - 1) :
            s[i].score_sum * s[i + 1].rows <= s[i + 1].score_sum * s[i].rows}

MostDiscussedGroups(start_date, end_date) ==
    SymbolGroups({p \in posts : PulseDateOk(p, start_date, end_date)})

(* variant: the HAVING clause is missing *)
MostLabelGroups_nohaving(label, start_date, end_date) ==
    SymbolGroups({p \in posts : p.sentiment_label = label
                                 /\ PulseDateOk(p, start_date, end_date)})

(* WHERE p.sentiment_label = ? ... GROUP BY t.symbol HAVING post_count >= 3 *)
MostLabelGroups(label, start_date, end_date) ==
    {g \in SymbolGroups({p \in posts : p.sentiment_label = label
                                       /\ PulseDateOk(p, start_date, end_date)}) :
        g.post_count >= MinPosts}

DiscussedEntry(g) ==
    [ticker |-> g.symbol, post_count |-> g.post_count,
     avg_sentiment_score |-> RoundDiv(g.score_sum, g.rows)]

LabelEntry(g) ==
    [ticker |-> g.symbol, avg_sentiment |-> RoundDiv(g.score_sum, g.rows),
     post_count |-> g.post_count]

(* variant: the sector of a post is taken from the tickers it is linked to *)
SentimentBySector_viatickers(start_date, end_date) ==
    LET hit(name) ==
            {p \in posts :
                /\ PulseDateOk(p, start_date, end_date)
                /\ \E t \in tickers :
                      /\ BagIn(<<p.id, t.id>>, post_tickers)
                      /\ \E x \in sectors : x.id = t.sector_id /\ x.name = name}
        names == {x.name : x \in {y \in sectors : hit(y.name) # {}}}
    IN  [name \in names |->
            [l \in Labels \cup {p.sentiment_label : p \in hit(name)} |->
                Cardinality({p.id : p \in {q \in hit(name) : q.sentiment_label = l}})]]

(* sectors JOIN post_sectors JOIN posts GROUP BY s.name, p.sentiment_label with
   COUNT(DISTINCT p.id), folded into sector -> label -> count *)
SentimentBySector(start_date, end_date) ==
    LET hit(name) == {p \in posts : JoinSectors(p, name) > 0
                                    /\ PulseDateOk(p, start_date, end_date)}
        names == {x.name : x \in {y \in sectors : hit(y.name) # {}}}
    IN  [name \in names |->
            [l \in Labels \cup {p.sentiment_label : p \in hit(name)} |->
                Cardinality({p.id : p \in {q \in hit(name) : q.sentiment_label = l}})]]

(* variant: the overall query joins post_tickers, so unlinked posts drop out *)
OverallSentiment_linked(start_date, end_date) ==
    LET hit == {p \in posts : PulseDateOk(p, start_date, end_date)
                              /\ LinkedIds(post_tickers, p.id) # {}}
        found == {p.sentiment_label : p \in hit}
        total_posts == Cardinality(hit)
        weighted_sum == SumFn([p \in hit |-> p.sentiment_score])
    IN  [average_score |->
            IF total_posts > 0 THEN RoundDiv(weighted_sum, total_posts) ELSE 0,
         distribution |->
            [l \in Labels \cup found |->
                Cardinality({p \in hit : p.sentiment_label = l})]]

(* SELECT AVG(sentiment_score), sentiment_label, COUNT(all) FROM posts GROUP BY
   sentiment_label, then the weighted average: avg_score * count of a label is
   the sum of its scores *)
OverallSentiment(start_date, end_date) ==
    LET hit == {p \in posts : PulseDateOk(p, start_date, end_date)}
        found == {p.sentiment_label : p \in hit}
        total_posts == Cardinality(hit)
        weighted_sum == SumFn([p \in hit |-> p.sentiment_score])
    IN  [average_score |->
            IF total_posts > 0 THEN RoundDiv(weighted_sum, total_posts) ELSE 0,
         distribution |->
            [l \in Labels \cup found |->
                Cardinality({p \in hit : p.sentiment_label = l})]]

get_market_pulse(start_date, end_date) ==
    /\ \E discussed \in OrderByPostCountDesc(MostDiscussedGroups(start_date, end_date)),
          positive \in OrderByAvgDesc(MostLabelGroups("positive", start_date, end_date)),
          negative \in OrderByAvgAsc(MostLabelGroups("negative", start_date, end_date)) :
          last' = [op |-> "get_market_pulse",
                   args |-> [start_date |-> start_date, end_date |-> end_date],
                   ok |-> TRUE,
                   ret |-> [most_discussed_stocks |->
                               [i \in 1..Len(Top(discussed)) |->
                                   DiscussedEntry(Top(discussed)[i])],
                            most_positive_stocks |->
                               [i \in 1..Len(Top(positive)) |->
                                   LabelEntry(Top(positive)[i])],
                            most_negative_stocks |->
                               [i \in 1..Len(Top(negative)) |->
                                   LabelEntry(Top(negative)[i])],
                            sentiment_by_sector |->
                               SentimentBySector(start_date, end_date),
                            overall_market_sentiment |->
                               OverallSentiment(start_date, end_date)]]
    /\ UNCHANGED <<tables, saved, conns>>

-----------------------------------------------------------------------------
(* AnalyticsRepository: per-ticker breakdown *)

(* variant: the tickers argument is ignored *)
ByTickerSymbols_all(ticker_list) == {t.symbol : t \in tickers}

(* the symbols the WHERE clause admits: t.symbol IN (...) only when the list is
   non-empty (None and [] are both falsy, and both are the empty list here) *)
ByTickerSymbols(ticker_list) ==
    IF TruthyList(ticker_list)
    THEN {t.symbol : t \in tickers} \cap Range(ticker_list)
    ELSE {t.symbol : t \in tickers}

(* the entry built from the GROUP BY t.symbol, p.sentiment_label rows of one
   symbol over the post rows P: COUNT(all) and round(AVG(p.sentiment_score), 2)
   per label, the three labels at 0 first *)
TickerSentimentEntry(symbol, P) ==
    LET hit == {p \in P : JoinTickers(p, symbol) > 0}
        found == {p.sentiment_label : p \in hit}
        g(l) == SymbolGroup(symbol, {p \in hit : p.sentiment_label = l})
    IN  [ticker |-> symbol,
         sentiments |-> [l \in Labels \cup found |-> IF l \in found THEN g(l).rows ELSE 0],
         avg_scores |-> [l \in found |-> RoundDiv(g(l).score_sum, g(l).rows)]]

get_sentiment_by_ticker(ticker_list, start_date, end_date) ==
    LET P == {p \in posts : PulseDateOk(p, start_date, end_date)}
        groups == {g \in {SymbolGroup(sym, P) : sym \in ByTickerSymbols(ticker_list)} :
                      g.rows > 0}
    IN  /\ \E ordered \in OrderBySymbol(groups) :
              last' = [op |-> "get_sentiment_by_ticker",
                       args |-> [tickers |-> ticker_list,
                                 start_date |-> start_date, end_date |-> end_date],
                       ok |-> TRUE,
                       ret |-> [i \in 1..Len(ordered) |->
                                   TickerSentimentEntry(ordered[i].symbol, P)]]
        /\ UNCHANGED <<tables, saved, conns>>

-----------------------------------------------------------------------------
(* Inputs of the calls *)

(* 2024-01-01T00, 2024-01-01T12, 2024-01-08T00 *)
T1 == <<2024, 1, 0>>

T1Noon == <<2024, 1, 12>>

T2 == <<2024, 8, 0>>

ScoresOf(label, score) ==
    [l \in Labels |-> IF l = label THEN score ELSE (100 - score) \div 2]

MkPost(id, created_at, label, score) ==
    [id |-> id, text |-> "text", created_at |-> created_at,
     sentiment |-> [label |-> label, score |-> score,
                    scores |-> ScoresOf(label, score)]]

(* lists of at most MaxListLen values of S, repetitions included *)
Lists(S) == UNION {[1..n -> S] : n \in 0..MaxListLen}

Symbols == {"AAPL", "MSFT"}

SectorNames == {"Technology", "Finance"}

IndustryNames == {"Semiconductors"}

(* save_ticker(symbol, company_name, sector, industry) *)
LinkTickerInputs ==
    {<<"AAPL", NONE, NONE, NONE>>,
     <<"AAPL", NONE, "Technology", "Semiconductors">>,
     <<"MSFT", NONE, "Technology", NONE>>}

-----------------------------------------------------------------------------
(* Ticker linking: the catalog and the post-to-ticker links *)

DoSaveTicker == \E a \in LinkTickerInputs : save_ticker(a[1], a[2], a[3], a[4])

DoLinkTickers ==
    \E p \in PostIds, syms \in Lists(Symbols) : link_post_to_tickers(p, syms)

Next == DoSaveTicker \/ DoLinkTickers

Spec == Init /\ [][Next]_vars

-----------------------------------------------------------------------------
(* Industry and sector linking *)

DimTickerInputs ==
    {<<"AAPL", NONE, "Technology", NONE>>,
     <<"MSFT", NONE, NONE, "Semiconductors">>}

DoSaveTickerDims == \E a \in DimTickerInputs : save_ticker(a[1], a[2], a[3], a[4])

DoLinkDims ==
    \E p \in PostIds, inds \in Lists(IndustryNames), secs \in Lists(SectorNames) :
        link_post_to_industries_and_sectors(p, inds, secs)

NextDims == DoSaveTickerDims \/ DoLinkDims

SpecDims == Init /\ [][NextDims]_vars

-----------------------------------------------------------------------------
(* Both linking calls on one post, with names that never enter the catalog *)

SkipSymbols == {"AAPL", "ZZZZ"}

SkipIndustryNames == {"Semiconductors", "Unknown"}

SkipSectorNames == {"Technology", "Unknown"}

SkipTickerInputs == {<<"AAPL", NONE, "Technology", "Semiconductors">>}

DoSaveTickerSkip == \E a \in SkipTickerInputs : save_ticker(a[1], a[2], a[3], a[4])

DoLinkTickersSkip ==
    \E syms \in Lists(SkipSymbols) : link_post_to_tickers(PostName[1], syms)

DoLinkDimsSkip ==
    \E inds \in Lists(SkipIndustryNames), secs \in Lists(SkipSectorNames) :
        link_post_to_industries_and_sectors(PostName[1], inds, secs)

NextSkip == DoSaveTickerSkip \/ DoLinkTickersSkip \/ DoLinkDimsSkip

SpecSkip == Init /\ [][NextSkip]_vars

-----------------------------------------------------------------------------
(* Every write operation, with repeated values *)

WritePostInputs == {MkPost(id, T1, "positive", 80) : id \in PostIds}

WriteTickerInputs ==
    {<<"AAPL", NONE, "Technology", "Semiconductors">>,
     <<"AAPL", "Apple", NONE, "Semiconductors">>,
     <<"MSFT", NONE, "Technology", NONE>>}

WriteTickerLists == {<<"AAPL", "AAPL">>, <<"MSFT", "AAPL">>}

(* the post the linking calls of this specification are issued for *)
WriteLinkedIds == {PostName[1]}

WriteDimLists ==
    {<< <<"Semiconductors", "Semiconductors">>, <<"Technology">> >>,
     << <<"Semiconductors">>, <<"Technology", "Technology">> >>}

DoSavePostWrites == \E pd \in WritePostInputs : save_post(pd, T2)

DoLinkTickersWrites ==
    \E p \in WriteLinkedIds, syms \in WriteTickerLists : link_post_to_tickers(p, syms)

DoLinkDimsWrites ==
    \E p \in WriteLinkedIds, d \in WriteDimLists :
        link_post_to_industries_and_sectors(p, d[1], d[2])

DoSaveTickerWrites == \E a \in WriteTickerInputs : save_ticker(a[1], a[2], a[3], a[4])

NextWrites ==
    DoSavePostWrites \/ DoSaveTickerWrites \/ DoLinkTickersWrites \/ DoLinkDimsWrites

SpecWrites == Init /\ [][NextWrites]_vars

-----------------------------------------------------------------------------
(* Linking contracts *)

SymbolsOf(ids) == {t.symbol : t \in {x \in tickers : x.id \in ids}}

NamesOf(table, ids) == {r.name : r \in {x \in table : x.id \in ids}}

(* C1: ticker linking is a full replace. After link_post_to_tickers(p, S2), whatever
   p was linked to before (the links of an earlier call with S1 included), the
   tickers linked to p are exactly the symbols of S2 that exist in the ticker
   catalog; no earlier link outside S2 survives. *)
C1_TickerLinkFullReplace ==
    last.op = "link_post_to_tickers" =>
        /\ LinkedIds(post_tickers, last.post_id) \subseteq {t.id : t \in tickers}
        /\ SymbolsOf(LinkedIds(post_tickers, last.post_id))
              = Range(last.symbols) \cap {t.symbol : t \in tickers}

(* a second linking call dropped a ticker of the first and linked another *)
C1_Witness ==
    /\ last.op = "link_post_to_tickers"
    /\ \E id \in last.old : id \notin LinkedIds(post_tickers, last.post_id)
    /\ \E id \in LinkedIds(post_tickers, last.post_id) : id \notin last.old

(* C2: link_post_to_industries_and_sectors applies the full replace to each
   dimension independently: afterwards the industry links of p are exactly the
   supplied industries that exist in the catalog and the sector links exactly the
   supplied sectors that exist, whatever p was linked to before. *)
C2_DimLinkFullReplace ==
    last.op = "link_post_to_industries_and_sectors" =>
        /\ LinkedIds(post_industries, last.post_id) \subseteq {r.id : r \in industries}
        /\ LinkedIds(post_sectors, last.post_id) \subseteq {r.id : r \in sectors}
        /\ NamesOf(industries, LinkedIds(post_industries, last.post_id))
              = Range(last.industries) \cap {r.name : r \in industries}
        /\ NamesOf(sectors, LinkedIds(post_sectors, last.post_id))
              = Range(last.sectors) \cap {r.name : r \in sectors}

(* the call removed an old sector link while it created an industry link *)
C2_Witness ==
    /\ last.op = "link_post_to_industries_and_sectors"
    /\ last.old_sectors # {}
    /\ LinkedIds(post_sectors, last.post_id) = {}
    /\ last.old_industries = {}
    /\ LinkedIds(post_industries, last.post_id) # {}

(* C3: a symbol or name without a catalog row is not an error. The linking call
   completes normally, changes no catalog table, and links the post to exactly
   the values of the call that resolve. *)
C3_UnresolvedSkipped ==
    [][/\ last'.op = "link_post_to_tickers" =>
             /\ last'.ok
             /\ tickers' = tickers /\ sectors' = sectors /\ industries' = industries
             /\ LinkedIds(post_tickers', last'.post_id)
                   = {SelectIdBySymbol(tickers, last'.symbols[i]) :
                         i \in 1..Len(last'.symbols)} \ {0}
       /\ last'.op = "link_post_to_industries_and_sectors" =>
             /\ last'.ok
             /\ tickers' = tickers /\ sectors' = sectors /\ industries' = industries
             /\ LinkedIds(post_industries', last'.post_id)
                   = {SelectIdByName(industries, last'.industries[i]) :
                         i \in 1..Len(last'.industries)} \ {0}
             /\ LinkedIds(post_sectors', last'.post_id)
                   = {SelectIdByName(sectors, last'.sectors[i]) :
                         i \in 1..Len(last'.sectors)} \ {0}
      ]_vars

(* one call named a symbol with no ticker row and a symbol that has one *)
C3_Witness ==
    /\ last.op = "link_post_to_tickers"
    /\ last.ok
    /\ \E i \in 1..Len(last.symbols) : SelectIdBySymbol(tickers, last.symbols[i]) = 0
    /\ LinkedIds(post_tickers, last.post_id) # {}

(* C4: uniqueness. No two tickers share a symbol, no two sectors a name, no two
   industries a name, and no link table holds the same (post, value) pair twice. *)
C4_Uniqueness ==
    /\ \A a, b \in tickers : a.symbol = b.symbol => a = b
    /\ \A a, b \in sectors : a.name = b.name => a = b
    /\ \A a, b \in industries : a.name = b.name => a = b
    /\ \A e \in BagToSet(post_tickers) : CopiesIn(e, post_tickers) = 1
    /\ \A e \in BagToSet(post_industries) : CopiesIn(e, post_industries) = 1
    /\ \A e \in BagToSet(post_sectors) : CopiesIn(e, post_sectors) = 1

(* a link list named one existing ticker twice, after its symbol was saved twice *)
C4_Witness ==
    /\ last.op = "link_post_to_tickers"
    /\ \E i, j \in 1..Len(last.symbols) :
          /\ i # j
          /\ last.symbols[i] = last.symbols[j]
          /\ SelectIdBySymbol(tickers, last.symbols[i]) # 0
    /\ \E t \in tickers : t.symbol = "AAPL" /\ t.sector_id # 0
    /\ posts # {}

-----------------------------------------------------------------------------
(* Filtered reads over a store built by the write operations *)

DefaultLimit == 50

QueryLabel == <<"positive", "negative", "neutral", "positive">>

QueryDate == <<T1, T2, T2, T1>>

(* one body per post id: the ids differ in label and creation time *)
QueryPostInputs ==
    {MkPost(PostName[i], QueryDate[i], QueryLabel[i], 80) : i \in 1..MaxPosts}

QueryTickerInputs ==
    {<<"AAPL", NONE, "Technology", "Semiconductors">>,
     <<"MSFT", NONE, "Finance", NONE>>}

QueryTickerLists == {<< >>, <<"AAPL">>}

QueryDimLists ==
    {<< << >>, << >> >>,
     << <<"Semiconductors">>, <<"Technology">> >>,
     << << >>, <<"Finance">> >>}

MkFilter(ticker, industry, sector, sentiment, start_date, end_date) ==
    [ticker |-> ticker, industry |-> industry, sector |-> sector,
     sentiment |-> sentiment, start_date |-> start_date, end_date |-> end_date]

(* every combination of criteria over the values of the store *)
Filters ==
    {MkFilter(t, i, s, l, a, b) :
        t \in {NONE, "AAPL"}, i \in {NONE, "Semiconductors"},
        s \in {NONE, "Technology", "Finance"}, l \in {NONE, "positive"},
        a \in {NoDate, T2}, b \in {NoDate, T1}}

(* criteria without a sentiment label: the arguments of get_sentiment_stats *)
StatsFilters == {f \in Filters : f.sentiment = NONE}

(* the filters the read calls of the model are issued with *)
ReadFilters ==
    {MkFilter(NONE, NONE, NONE, NONE, NoDate, NoDate),
     MkFilter("AAPL", NONE, "Finance", NONE, NoDate, NoDate),
     MkFilter("AAPL", "Semiconductors", "Technology", NONE, NoDate, NoDate),
     MkFilter(NONE, NONE, NONE, "positive", NoDate, T1),
     MkFilter(NONE, NONE, "Technology", NONE, T2, NoDate)}

DoSavePostQuery == \E pd \in QueryPostInputs : save_post(pd, T2)

DoSaveTickerQuery == \E a \in QueryTickerInputs : save_ticker(a[1], a[2], a[3], a[4])

(* the posts the linking calls of the read specifications are issued for *)
QueryLinkedIds == {PostName[1], PostName[2]}

DoLinkTickersQuery ==
    \E p \in QueryLinkedIds, syms \in QueryTickerLists : link_post_to_tickers(p, syms)

DoLinkDimsQuery ==
    \E p \in QueryLinkedIds, d \in QueryDimLists :
        link_post_to_industries_and_sectors(p, d[1], d[2])

DoGetPostsFiltered == \E f \in ReadFilters : get_posts_filtered(f, DefaultLimit, 0)

DoCountPostsFiltered == \E f \in ReadFilters : count_posts_filtered(f)

NextQuery ==
    \/ DoSavePostQuery \/ DoSaveTickerQuery \/ DoLinkTickersQuery \/ DoLinkDimsQuery
    \/ DoGetPostsFiltered \/ DoCountPostsFiltered

SpecQuery == Init /\ [][NextQuery]_vars

-----------------------------------------------------------------------------
(* Statistics next to the count, over the same stores *)

ReadStatsFilters ==
    {MkFilter(NONE, NONE, NONE, NONE, NoDate, NoDate),
     MkFilter("AAPL", "Semiconductors", "Technology", NONE, NoDate, NoDate),
     MkFilter(NONE, NONE, "Technology", NONE, NoDate, T1),
     MkFilter("AAPL", NONE, NONE, NONE, T2, NoDate)}

DoGetSentimentStats == \E f \in ReadStatsFilters : get_sentiment_stats(f)

DoCountPostsStats ==
    \E f \in ReadStatsFilters, l \in {NONE, "negative"} :
        count_posts_filtered([f EXCEPT !.sentiment = l])

NextStatsQuery ==
    \/ DoSavePostQuery \/ DoSaveTickerQuery \/ DoLinkTickersQuery \/ DoLinkDimsQuery
    \/ DoGetSentimentStats \/ DoCountPostsStats

SpecStatsQuery == Init /\ [][NextStatsQuery]_vars

-----------------------------------------------------------------------------
(* Filter contracts *)

ReadOps == {"get_post_by_id", "get_posts_filtered", "count_posts_filtered",
            "get_sentiment_stats", "get_sentiment_trends", "get_market_pulse"}

(* the tables are as the last write (or construction) left them: a read changes
   none of them, so every store state is met in a state where this holds *)
AfterWrite == last.op \notin ReadOps

(* post row p satisfies every supplied criterion of f, stated on the link sets *)
Matches(p, f) ==
    /\ TruthyStr(f.ticker) =>
          f.ticker \in SymbolsOf(LinkedIds(post_tickers, p.id))
    /\ TruthyStr(f.industry) =>
          f.industry \in NamesOf(industries, LinkedIds(post_industries, p.id))
    /\ TruthyStr(f.sector) =>
          f.sector \in NamesOf(sectors, LinkedIds(post_sectors, p.id))
    /\ TruthyStr(f.sentiment) => p.sentiment_label = f.sentiment
    /\ TruthyDate(f.start_date) => LexLeq(f.start_date, p.created_at)
    /\ TruthyDate(f.end_date) => LexLeq(p.created_at, f.end_date)

(* C5: for every store state and every combination of criteria, the count equals
   the number of posts the listing returns with offset 0 and a limit no smaller
   than the store, and the listing returns each matching post exactly once. *)
C5_CountEqualsListing ==
    /\ AfterWrite =>
          \A f \in Filters : CountPostsFiltered(f) = Cardinality(PostsFilteredRows(f))
    /\ (last.op = "get_posts_filtered" /\ last.offset = 0
           /\ last.limit >= Cardinality(posts)) =>
          /\ Len(last.ret) = CountPostsFiltered(last.args)
          /\ \A i, j \in 1..Len(last.ret) : i # j => last.ret[i].id # last.ret[j].id
          /\ {last.ret[i].id : i \in 1..Len(last.ret)}
                = {p.id : p \in {q \in posts : Matches(q, last.args)}}

(* a listing under a three-dimension filter returned two posts *)
C5_Witness ==
    /\ last.op = "get_posts_filtered"
    /\ last.args.ticker = "AAPL" /\ last.args.sector = "Technology"
    /\ Len(last.ret) >= 2

(* C6: multi-dimension filters intersect. A post is listed or counted only if it
   satisfies every supplied criterion at once; a post linked to ticker AAPL and
   sector Technology but not to sector Finance is not returned for
   (ticker = AAPL, sector = Finance). *)
C6_FiltersIntersect ==
    /\ AfterWrite =>
          \A f \in Filters :
              /\ \A p \in PostsFilteredRows(f) : Matches(p, f)
              /\ CountPostsFiltered(f)
                    <= Cardinality({p.id : p \in {q \in posts : Matches(q, f)}})
    /\ last.op = "get_posts_filtered" =>
          \A i \in 1..Len(last.ret) :
              \E p \in posts : p.id = last.ret[i].id /\ Matches(p, last.args)

(* (ticker = AAPL, sector = Finance) returned nothing although a stored post is
   linked to AAPL and to Technology *)
C6_Witness ==
    /\ last.op = "get_posts_filtered"
    /\ last.args.ticker = "AAPL" /\ last.args.sector = "Finance"
    /\ last.ret = << >>
    /\ \E p \in posts :
          /\ "AAPL" \in SymbolsOf(LinkedIds(post_tickers, p.id))
          /\ NamesOf(sectors, LinkedIds(post_sectors, p.id)) = {"Technology"}
    /\ \E x \in sectors : x.name = "Finance"

(* the count get_sentiment_stats reports for a label, 0 when the label is absent *)
StatsCount(stats, l) ==
    IF l \in DOMAIN stats.by_sentiment THEN stats.by_sentiment[l].count ELSE 0

(* C7: stats and listing agree on the posts in scope. For every store state and
   every filter over ticker, industry, sector, start_date and end_date, the total
   of get_sentiment_stats equals count_posts_filtered of the same filter, and the
   count it reports for each label equals count_posts_filtered with that label
   added as the sentiment criterion (a label it does not report counts 0). *)
C7_StatsAgreeWithCount ==
    /\ AfterWrite =>
          \A f \in StatsFilters :
              /\ SentimentStats(f).total = CountPostsFiltered(f)
              /\ \A l \in Labels :
                    StatsCount(SentimentStats(f), l)
                       = CountPostsFiltered([f EXCEPT !.sentiment = l])
    /\ (last.op = "get_sentiment_stats" /\ last.ok) =>
          /\ last.ret.total = CountPostsFiltered(last.args)
          /\ \A l \in Labels :
                StatsCount(last.ret, l)
                   = CountPostsFiltered([last.args EXCEPT !.sentiment = l])

(* statistics under a sector and end-date filter counted a post created on the
   end date, while another stored post was out of scope *)
C7_Witness ==
    /\ last.op = "get_sentiment_stats"
    /\ last.args.sector = "Technology" /\ last.args.end_date = T1
    /\ last.ret.total >= 1
    /\ Cardinality(posts) > last.ret.total

-----------------------------------------------------------------------------
(* Aggregates over stores of up to MaxStatPosts posts, and over empty results *)

StatPostName == <<"s1", "s2", "s3", "s4", "s5", "s6", "s7", "s8">>

StatPostInputs ==
    {MkPost(StatPostName[i], T1, l, 80) : i \in 1..MaxStatPosts, l \in Labels}

(* 2024-01-09T00, the clock of the trend calls; 2025-01-01T00, after every post *)
NowT == <<2024, 9, 0>>

T3 == <<2025, 1, 0>>

DefaultDays == 7

NoFilter == MkFilter(NONE, NONE, NONE, NONE, NoDate, NoDate)

AggregateFilters ==
    {NoFilter,
     [NoFilter EXCEPT !.start_date = T3],
     [NoFilter EXCEPT !.ticker = "AAPL"]}

TrendFilters == {NoFilter, [NoFilter EXCEPT !.start_date = T1]}

DoSavePostStats == \E pd \in StatPostInputs : save_post(pd, T2)

DoStats == \E f \in AggregateFilters : get_sentiment_stats(f)

DoMarketPulse == \E a \in {NoDate, T3} : get_market_pulse(a, NoDate)

DoTrends ==
    \E f \in TrendFilters, g \in {"day", "week"} :
        get_sentiment_trends(DefaultDays, f, g, NowT)

NextStats == DoSavePostStats \/ DoStats \/ DoMarketPulse \/ DoTrends

SpecStats == Init /\ [][NextStats]_vars

(* C8: for a non-empty result set, the per-label counts of get_sentiment_stats sum
   to total, each percentage is count / total * 100 rounded to 2 decimals (the
   hundredth nearest to the exact quotient), and the percentages sum to a value in
   [99.9, 100.1]. *)
C8_StatsPercentages ==
    (last.op = "get_sentiment_stats" /\ last.ok /\ last.ret.total > 0) =>
        LET by == last.ret.by_sentiment
            total == last.ret.total
            pct_sum == SumFn([l \in DOMAIN by |-> by[l].percentage])
        IN  /\ total = Cardinality({p \in posts : Matches(p, last.args)})
            /\ SumFn([l \in DOMAIN by |-> by[l].count]) = total
            /\ \A l \in DOMAIN by :
                  /\ by[l].count
                        = Cardinality({p \in posts : Matches(p, last.args)
                                                     /\ p.sentiment_label = l})
                  /\ 2 * (by[l].percentage * total - by[l].count * 10000) <= total
                  /\ 2 * (by[l].count * 10000 - by[l].percentage * total) <= total
            /\ pct_sum >= 9990 /\ pct_sum <= 10010

(* one post of three under a label: 33.33, and 66.67 for the other two *)
C8_Witness ==
    /\ last.op = "get_sentiment_stats" /\ last.ok
    /\ last.ret.total = 3
    /\ \E l, m \in DOMAIN last.ret.by_sentiment :
          /\ last.ret.by_sentiment[l].percentage = 3333
          /\ last.ret.by_sentiment[m].percentage = 6667

(* the post rows a trends call with these arguments has in scope *)
InTrendScope(p, f, days, now) ==
    /\ Matches(p, f)
    /\ (~TruthyDate(f.start_date) /\ ~TruthyDate(f.end_date)) =>
          LexLeq(DaysBefore(now, days), p.created_at)

(* C9: when no post matches (an empty store included), get_sentiment_stats
   completes and returns exactly total 0 with an empty by_sentiment map, and
   get_market_pulse and get_sentiment_trends complete with empty lists and maps,
   a zero distribution and average_score 0. *)
C9_EmptyResults ==
    /\ (last.op = "get_sentiment_stats"
           /\ {p \in posts : Matches(p, last.args)} = {}) =>
          /\ last.ok
          /\ last.ret = [total |-> 0, by_sentiment |-> << >>]
    /\ (last.op = "get_market_pulse"
           /\ {p \in posts : Matches(p, [NoFilter EXCEPT
                                            !.start_date = last.args.start_date,
                                            !.end_date = last.args.end_date])} = {}) =>
          /\ last.ok
          /\ last.ret = [most_discussed_stocks |-> << >>,
                         most_positive_stocks |-> << >>,
                         most_negative_stocks |-> << >>,
                         sentiment_by_sector |-> << >>,
                         overall_market_sentiment |->
                            [average_score |-> 0,
                             distribution |-> [l \in Labels |-> 0]]]
    /\ (last.op = "get_sentiment_trends"
           /\ {p \in posts : InTrendScope(p, last.args, last.days, last.now)} = {}) =>
          /\ last.ok
          /\ last.ret = << >>

(* statistics over a store that holds posts, none of them in the date range *)
C9_Witness ==
    /\ last.op = "get_sentiment_stats"
    /\ posts # {}
    /\ last.args.start_date = T3
    /\ last.ok
    /\ last.ret.total = 0

-----------------------------------------------------------------------------
(* Saving and re-saving posts, with and without the optional fields *)

PostVariants(id) ==
    {MkPost(id, T1, "positive", 80)
        @@ [title |-> "Title", author |-> "alice", url |-> "http://u",
            subreddit |-> "stocks", timezone |-> "EST"],
     MkPost(id, T2, "negative", 60),
     MkPost(id, T1, "neutral", 60) @@ [author_id |-> "bob", link |-> "http://l"]}

DoSavePostAny ==
    \E id \in PostIds, now \in {T2, T3} :
        \E pd \in PostVariants(id) : save_post(pd, now)

DoGetPostById == \E id \in PostIds : get_post_by_id(id)

NextPosts == DoSavePostAny \/ DoGetPostById

SpecPosts == Init /\ [][NextPosts]_vars

(* the post a reader is owed after the save recorded in sv: the values of that
   save alone, an omitted optional field at its default *)
PostOf(sv) ==
    LET pd == sv.data
        opt(k, default) == IF k \in DOMAIN pd THEN pd[k] ELSE default
    IN  [id |-> pd.id,
         reddit_id |-> opt("reddit_id", StripReddit(pd.id)),
         url |-> opt("url", opt("link", "")),
         subreddit |-> opt("subreddit", ""),
         title |-> opt("title", ""),
         text |-> pd.text,
         author |-> opt("author", opt("author_id", "unknown")),
         created_at |-> pd.created_at,
         timezone |-> opt("timezone", "UTC"),
         sentiment |-> pd.sentiment,
         analyzed_at |-> sv.at]

(* C10: save_post is an upsert by id with full overwrite. The store holds exactly
   one post per saved id, and get_post_by_id returns the values of the most recent
   save of that id, sentiment included, with every optional field that save
   omitted at its default rather than at the value of an earlier save. *)
C10_SavePostOverwrites ==
    /\ {r.id : r \in posts} = DOMAIN saved
    /\ \A a, b \in posts : a.id = b.id => a = b
    /\ last.op = "get_post_by_id" =>
          /\ last.found = (last.args \in DOMAIN saved)
          /\ last.found => last.ret = PostOf(saved[last.args])

(* a post saved with a title and an author, saved again without them, then read *)
C10_Witness ==
    /\ last.op = "get_post_by_id"
    /\ last.found
    /\ last.ret.title = "" /\ last.ret.author = "unknown"
    /\ last.ret.sentiment.label = "negative"
    /\ last.ret.analyzed_at = T3

-----------------------------------------------------------------------------
(* Saving incomplete and malformed posts *)

(* the dictionary d without key k *)
Without(d, k) == [x \in DOMAIN d \ {k} |-> d[x]]

(* a complete post, and the same post with one required key left out *)
IncompletePosts(id) ==
    LET pd == MkPost(id, T1, "positive", 80)
    IN  {Without(pd, k) : k \in RequiredPostKeys}
        \cup {[pd EXCEPT !.sentiment = Without(pd.sentiment, k)] :
                  k \in RequiredSentimentKeys}

(* every key present, but an empty text or a label outside the enumeration *)
MalformedPosts(id) ==
    {[MkPost(id, T1, "positive", 80) EXCEPT !.text = ""],
     MkPost(id, T1, "bullish", 80)}

SavePostInputs(id) ==
    {MkPost(id, T1, "positive", 80), MkPost(id, T2, "negative", 60)}
    \cup IncompletePosts(id) \cup MalformedPosts(id)

DoSavePostInputs == \E id \in PostIds : \E pd \in SavePostInputs(id) : save_post(pd, T2)

NextSave == DoSavePostInputs \/ DoGetPostById

SpecSave == Init /\ [][NextSave]_vars

(* one of id, text, created_at, sentiment label, score, score distribution is
   absent from the dictionary *)
MissingRequired(pd) ==
    \/ "id" \notin DOMAIN pd
    \/ "text" \notin DOMAIN pd
    \/ "created_at" \notin DOMAIN pd
    \/ "sentiment" \notin DOMAIN pd
    \/ /\ "sentiment" \in DOMAIN pd
       /\ \/ "label" \notin DOMAIN pd.sentiment
          \/ "score" \notin DOMAIN pd.sentiment
          \/ "scores" \notin DOMAIN pd.sentiment

(* C11: save_post with a required field missing (id, text, created_at, sentiment
   label, sentiment score or score distribution) fails with an error raised to the
   caller, and every table, the stored posts included, is exactly as before the
   call. *)
C11_MissingFieldRejected ==
    [][(last'.op = "save_post" /\ MissingRequired(last'.args)) =>
          /\ ~last'.ok
          /\ last'.err = "KeyError"
          /\ posts' = posts
          /\ tables' = tables
      ]_vars

(* a stored post was saved again without its score distribution: the call failed
   and the stored row is still there *)
C11_Witness ==
    /\ last.op = "save_post"
    /\ ~last.ok
    /\ "id" \in DOMAIN last.args
    /\ "sentiment" \in DOMAIN last.args
    /\ "scores" \notin DOMAIN last.args.sentiment
    /\ \E r \in posts : r.id = last.args.id

(* C12: stored-post validity. Every stored post has a non-empty text and a label
   among positive, negative, neutral, and a save with an empty text or a label
   outside the enumeration is rejected. *)
C12_StoredPostsValid ==
    /\ \A r \in posts : r.text # "" /\ r.sentiment_label \in Labels
    /\ (last.op = "save_post" /\ ~MissingRequired(last.args)
           /\ (last.args.text = "" \/ last.args.sentiment.label \notin Labels)) =>
          ~last.ok

-----------------------------------------------------------------------------
(* The ticker catalog: repeated saves of one symbol, and the catalog dump *)

CatalogTickerInputs ==
    {<<"AAPL", "Apple", "Technology", "Semiconductors">>,
     <<"AAPL", "Apple Inc", NONE, NONE>>,
     <<"AAPL", NONE, "Finance", NONE>>,
     <<"MSFT", "Microsoft", "Technology", NONE>>,
     <<"MSFT", NONE, NONE, "Software">>}

DoSaveTickerCatalog ==
    \E a \in CatalogTickerInputs : save_ticker(a[1], a[2], a[3], a[4])

DoGetTickers == get_tickers

NextCatalog == DoSaveTickerCatalog \/ DoGetTickers

SpecCatalog == Init /\ [][NextCatalog]_vars

(* C13: save_ticker is get-or-create with last-write-wins. A ticker keeps its id
   for good; after save_ticker(symbol, company) the catalog holds exactly one row
   for the symbol, the call returns its id (the same id as a preceding save of
   the symbol returned) and the row carries the company of this call; get_tickers
   right after shows the symbol once, with that company. *)
C13_SaveTickerLastWriteWins ==
    [][/\ \A t \in tickers : \E u \in tickers' : u.id = t.id /\ u.symbol = t.symbol
       /\ last'.op = "save_ticker" =>
             /\ Cardinality({t \in tickers' : t.symbol = last'.args[1]}) = 1
             /\ \A t \in tickers' :
                   t.symbol = last'.args[1] =>
                      t.id = last'.ret /\ t.company_name = last'.args[2]
             /\ (last.op = "save_ticker" /\ last.args[1] = last'.args[1]) =>
                   last'.ret = last.ret
       /\ (last.op = "save_ticker" /\ last'.op = "get_tickers") =>
             /\ Cardinality({i \in 1..Len(last'.ret) :
                                last'.ret[i].symbol = last.args[1]}) = 1
             /\ \A i \in 1..Len(last'.ret) :
                   last'.ret[i].symbol = last.args[1] =>
                      last'.ret[i].company_name = last.args[2]
      ]_vars

(* the catalog shows AAPL as Apple Inc although an industry exists that only the
   save of AAPL as Apple created: the second company replaced the first *)
C13_Witness ==
    /\ last.op = "get_tickers"
    /\ \E i \in 1..Len(last.ret) :
          last.ret[i].symbol = "AAPL" /\ last.ret[i].company_name = "Apple Inc"
    /\ \E r \in industries : r.name = "Semiconductors"
    /\ Cardinality(tickers) = 2

(* C14: for an existing ticker, a save_ticker call that passes None for company,
   sector or industry leaves the stored value of that attribute unchanged. *)
C14_NoneLeavesValue ==
    [][(last'.op = "save_ticker" /\ \E t \in tickers : t.symbol = last'.args[1]) =>
          \A t \in tickers : \A u \in tickers' :
             (t.symbol = last'.args[1] /\ u.symbol = t.symbol) =>
                /\ last'.args[2] = NONE => u.company_name = t.company_name
                /\ last'.args[3] = NONE => u.sector_id = t.sector_id
                /\ last'.args[4] = NONE => u.industry_id = t.industry_id
      ]_vars

-----------------------------------------------------------------------------
(* Market pulse over posts linked to tickers *)

PulsePostName == <<"m1", "m2", "m3", "m4", "m5">>

(* 2024-01-01, then 2024-01-08 for every later post *)
PulseDate == <<T1, T2, T2, T2, T2>>

PulseScore == <<80, 60, 72, 64, 88>>

PulsePostIds == {PulsePostName[i] : i \in 1..MaxPulsePosts}

PulsePostInputs ==
    {MkPost(PulsePostName[i], PulseDate[i], l, PulseScore[i]) :
        i \in 1..MaxPulsePosts, l \in {"positive", "negative"}}

PulseTickerInputs ==
    {<<"AAPL", NONE, "Technology", NONE>>, <<"MSFT", NONE, "Finance", NONE>>}

(* the posts that are linked to both tickers; every other post to AAPL alone *)
PulseBothIds == {PulsePostName[1], PulsePostName[2]}

PulseTickerLists(p) ==
    IF p \in PulseBothIds THEN {<<"AAPL">>, <<"AAPL", "MSFT">>} ELSE {<<"AAPL">>}

PulseRanges == {<<NoDate, NoDate>>, <<T2, NoDate>>}

DoSavePostPulse == \E pd \in PulsePostInputs : save_post(pd, T3)

DoSaveTickerPulse == \E a \in PulseTickerInputs : save_ticker(a[1], a[2], a[3], a[4])

DoLinkTickersPulse ==
    \E p \in PulsePostIds : \E syms \in PulseTickerLists(p) :
        link_post_to_tickers(p, syms)

DoMarketPulseRange == \E r \in PulseRanges : get_market_pulse(r[1], r[2])

NextPulse ==
    DoSavePostPulse \/ DoSaveTickerPulse \/ DoLinkTickersPulse \/ DoMarketPulseRange

SpecPulse == Init /\ [][NextPulse]_vars

(* ids of the stored posts with the label, inside the date range, linked to the
   ticker *)
Qualifying(symbol, label, start_date, end_date) ==
    {p.id : p \in {q \in posts :
        Matches(q, MkFilter(symbol, NONE, NONE, label, start_date, end_date))}}

Listed(stocks) == {stocks[i].ticker : i \in 1..Len(stocks)}

(* C15: every ticker in most_positive_stocks has at least 3 distinct linked posts
   labelled positive within the date range, every ticker in most_negative_stocks
   at least 3 labelled negative, and the post_count of the entry is that number;
   a ticker with 2 such posts is not listed (and, with no more than 10 tickers,
   one with 3 is). *)
C15_MinimumThreePosts ==
    last.op = "get_market_pulse" =>
        LET a == last.args.start_date
            b == last.args.end_date
            ok(stocks, label) ==
                /\ \A i \in 1..Len(stocks) :
                      /\ Cardinality(Qualifying(stocks[i].ticker, label, a, b)) >= 3
                      /\ stocks[i].post_count
                            = Cardinality(Qualifying(stocks[i].ticker, label, a, b))
                /\ Cardinality(tickers) <= TopN =>
                      \A t \in tickers :
                          Cardinality(Qualifying(t.symbol, label, a, b)) >= 3
                             => t.symbol \in Listed(stocks)
        IN  /\ ok(last.ret.most_positive_stocks, "positive")
            /\ ok(last.ret.most_negative_stocks, "negative")

(* AAPL is listed as most negative with 3 posts while MSFT, linked to 2 negative
   posts, is not *)
C15_Witness ==
    /\ last.op = "get_market_pulse"
    /\ last.args.start_date = NoDate
    /\ \E i \in 1..Len(last.ret.most_negative_stocks) :
          /\ last.ret.most_negative_stocks[i].ticker = "AAPL"
          /\ last.ret.most_negative_stocks[i].post_count = 3
    /\ Cardinality(Qualifying("MSFT", "negative", NoDate, NoDate)) = 2
    /\ "MSFT" \notin Listed(last.ret.most_negative_stocks)

-----------------------------------------------------------------------------
(* Market pulse by sector: posts linked to tickers and, separately, to sectors *)

NextSector ==
    \/ DoSavePostQuery \/ DoSaveTickerQuery \/ DoLinkTickersQuery \/ DoLinkDimsQuery
    \/ DoMarketPulseRange

SpecSector == Init /\ [][NextSector]_vars

(* the sectors of the tickers post_id is linked to *)
TickerSectorsOf(post_id) ==
    {x.name : x \in {y \in sectors :
        \E t \in tickers :
            t.id \in LinkedIds(post_tickers, post_id) /\ t.sector_id = y.id}}

(* the count sentiment_by_sector reports for a sector and label, 0 when absent *)
SectorCount(by_sector, name, l) ==
    IF name \in DOMAIN by_sector /\ l \in DOMAIN by_sector[name]
    THEN by_sector[name][l] ELSE 0

InPulseRange(p, args) ==
    Matches(p, [NoFilter EXCEPT !.start_date = args.start_date,
                                !.end_date = args.end_date])

(* C16 as claimed: sentiment_by_sector counts, per sector and label, every in-range
   post linked through one of its tickers to the sector, a direct post-to-sector
   link row or not. *)
C16_SectorViaTickers ==
    last.op = "get_market_pulse" =>
        \A x \in sectors : \A l \in Labels :
            SectorCount(last.ret.sentiment_by_sector, x.name, l)
               = Cardinality({p.id : p \in {q \in posts :
                     /\ InPulseRange(q, last.args)
                     /\ q.sentiment_label = l
                     /\ x.name \in TickerSectorsOf(q.id)}})

(* C16 as amended: sentiment_by_sector counts, per sector and label, the in-range
   posts that have a post-to-sector link row for the sector; a sector is present
   exactly when some in-range post is linked to it directly, then with each of the
   three labels; the sectors of a post's tickers play no part. *)
C16_SectorDirectLinks ==
    last.op = "get_market_pulse" =>
        LET by == last.ret.sentiment_by_sector
            direct(name, l) ==
                {p.id : p \in {q \in posts :
                    /\ InPulseRange(q, last.args)
                    /\ q.sentiment_label = l
                    /\ name \in NamesOf(sectors, LinkedIds(post_sectors, q.id))}}
        IN  /\ DOMAIN by = {x.name : x \in {y \in sectors :
                                \E l \in Labels : direct(y.name, l) # {}}}
            /\ \A name \in DOMAIN by :
                  /\ Labels \subseteq DOMAIN by[name]
                  /\ \A l \in Labels : by[name][l] = Cardinality(direct(name, l))

(* a post linked to AAPL (sector Technology) with no sector link is left out of
   Technology, while a post linked to Finance directly is counted *)
C16_Witness ==
    /\ last.op = "get_market_pulse"
    /\ "Finance" \in DOMAIN last.ret.sentiment_by_sector
    /\ "Technology" \notin DOMAIN last.ret.sentiment_by_sector
    /\ \E p \in posts :
          /\ InPulseRange(p, last.args)
          /\ "Technology" \in TickerSectorsOf(p.id)
          /\ LinkedIds(post_sectors, p.id) = {}

-----------------------------------------------------------------------------
(* Market pulse: the overall figures *)

(* the stored posts inside the date range of a market pulse call *)
PulseScope(args) == {p \in posts : InPulseRange(p, args)}

ScoreSum(P) == SumFn([p \in P |-> p.sentiment_score])

(* C17 as claimed: overall_market_sentiment covers every in-range post, linked to
   a ticker or not; the distribution holds the per-label post counts, which sum to
   the number of posts in range, and average_score is exactly the mean score of
   the posts in range (0 when there are none). *)
C17_OverallExactMean ==
    last.op = "get_market_pulse" =>
        LET o == last.ret.overall_market_sentiment
            P == PulseScope(last.args)
        IN  /\ \A l \in Labels :
                  o.distribution[l] = Cardinality({p \in P : p.sentiment_label = l})
            /\ SumFn(o.distribution) = Cardinality(P)
            /\ o.average_score * Cardinality(P) = ScoreSum(P)

(* C17 as amended: the same coverage and distribution, and average_score is the
   mean score of the posts in range rounded to 2 decimals, that is within 0.005
   of the mean (0 when there are none). *)
C17_OverallRoundedMean ==
    last.op = "get_market_pulse" =>
        LET o == last.ret.overall_market_sentiment
            P == PulseScope(last.args)
            n == Cardinality(P)
        IN  /\ \A l \in Labels :
                  o.distribution[l] = Cardinality({p \in P : p.sentiment_label = l})
            /\ SumFn(o.distribution) = n
            /\ n = 0 => o.average_score = 0
            /\ 2 * (o.average_score * n - ScoreSum(P)) <= n
            /\ 2 * (ScoreSum(P) - o.average_score * n) <= n

(* three posts in range, one of them linked to no ticker, two labels, and a mean
   (2.12 / 3) that is not a whole number of hundredths *)
C17_Witness ==
    /\ last.op = "get_market_pulse"
    /\ Cardinality(PulseScope(last.args)) = 3
    /\ \E p, q \in PulseScope(last.args) :
          /\ LinkedIds(post_tickers, p.id) = {}
          /\ LinkedIds(post_tickers, q.id) # {}
          /\ p.sentiment_label # q.sentiment_label
    /\ last.ret.overall_market_sentiment.average_score = 71

-----------------------------------------------------------------------------
(* Per-ticker breakdown over posts linked to one or two tickers *)

ByTickerLists == {<< >>, <<"AAPL", "AAPL">>, <<"AAPL", "MSFT">>}

ByTickerArgs == {<< >>, <<"MSFT">>, <<"AAPL", "ZZZZ">>}

DoLinkTickersByTicker ==
    \E p \in PostIds, syms \in ByTickerLists : link_post_to_tickers(p, syms)

DoSentimentByTicker ==
    \E a \in ByTickerArgs, r \in PulseRanges : get_sentiment_by_ticker(a, r[1], r[2])

NextByTicker ==
    \/ DoSavePostQuery \/ DoSaveTickerQuery \/ DoLinkTickersByTicker
    \/ DoSentimentByTicker

SpecByTicker == Init /\ [][NextByTicker]_vars

(* C18: get_sentiment_by_ticker returns exactly one entry per ticker that has a
   linked post within the date range, among the requested symbols when tickers is
   given and among all tickers when it is unset; no entry for a ticker without a
   linked post in range; and the per-label counts of an entry sum to the number
   of in-range posts linked to its ticker. *)
C18_OneEntryPerTicker ==
    last.op = "get_sentiment_by_ticker" =>
        LET a == last.args
            all == {t.symbol : t \in tickers}
            asked == IF Len(a.tickers) > 0 THEN all \cap Range(a.tickers) ELSE all
            linked(sym) == Qualifying(sym, NONE, a.start_date, a.end_date)
        IN  /\ {last.ret[i].ticker : i \in 1..Len(last.ret)}
                  = {sym \in asked : linked(sym) # {}}
            /\ \A i, j \in 1..Len(last.ret) :
                  i # j => last.ret[i].ticker # last.ret[j].ticker
            /\ \A i \in 1..Len(last.ret) :
                  /\ SumFn(last.ret[i].sentiments)
                        = Cardinality(linked(last.ret[i].ticker))
                  /\ \A l \in Labels :
                        last.ret[i].sentiments[l]
                           = Cardinality(Qualifying(last.ret[i].ticker, l,
                                                    a.start_date, a.end_date))

(* MSFT alone was asked for, from 2024-01-08 on: one entry, for the one in-range
   post linked to it, while AAPL has linked posts in and out of range *)
C18_Witness ==
    /\ last.op = "get_sentiment_by_ticker"
    /\ last.args.tickers = <<"MSFT">>
    /\ last.args.start_date = T2
    /\ Len(last.ret) = 1
    /\ Cardinality(Qualifying("AAPL", NONE, NoDate, NoDate)) = 2
    /\ Cardinality(Qualifying("MSFT", NONE, NoDate, NoDate)) = 2

-----------------------------------------------------------------------------
(* Trends over posts of several days and weeks *)

(* 2024-01-03T12: the same week as 2024-01-01, inside the 7 days before NowT *)
TMid == <<2024, 3, 12>>

TrendDates == {T1, TMid, T2}

(* every post on each of the dates; the first post with either label, the
   others positive *)
TrendPostInputs ==
    {MkPost(PulsePostName[i], d, l, 80) :
        i \in 1..MaxPulsePosts, d \in TrendDates,
        l \in {"positive", "negative"}} \
    {MkPost(PulsePostName[i], d, "negative", 80) :
        i \in 2..MaxPulsePosts, d \in TrendDates}

(* start_date, end_date: both unset, the start alone, the end alone, both *)
TrendRanges ==
    {<<NoDate, NoDate>>, <<T1Noon, NoDate>>, <<NoDate, TMid>>, <<T1, TMid>>}

TrendDays == {DefaultDays, 1}

DoSavePostTrends == \E pd \in TrendPostInputs : save_post(pd, T3)

DoTrendsRange ==
    \E r \in TrendRanges, days \in TrendDays, g \in {"day", "week"} :
        get_sentiment_trends(days, [NoFilter EXCEPT !.start_date = r[1],
                                                    !.end_date = r[2]], g, NowT)

NextTrends == DoSavePostTrends \/ DoTrendsRange

SpecTrends == Init /\ [][NextTrends]_vars

(* C19: get_sentiment_trends returns one entry per time bucket that holds a
   matching post, the entries in strictly descending bucket order, and every
   entry carries positive, negative and neutral: the number of matching posts of
   the label in the bucket, 0 when there is none. *)
C19_TrendBuckets ==
    last.op = "get_sentiment_trends" =>
        LET scope == {p \in posts :
                         InTrendScope(p, last.args, last.days, last.now)}
            n == Len(last.ret)
        IN  /\ {last.ret[i].date : i \in 1..n}
                  = {TrendBucket(p, last.granularity) : p \in scope}
            /\ \A i \in 1..(n - 1) :
                  /\ LexLeq(last.ret[i + 1].date, last.ret[i].date)
                  /\ last.ret[i + 1].date # last.ret[i].date
            /\ \A i \in 1..n : \A l \in Labels :
                  /\ l \in DOMAIN last.ret[i]
                  /\ last.ret[i][l]
                        = Cardinality({p \in scope :
                              /\ TrendBucket(p, last.granularity) = last.ret[i].date
                              /\ p.sentiment_label = l})

(* two week buckets, the later one first; the first holds two posts of one label
   and none of the other *)
C19_Witness ==
    /\ last.op = "get_sentiment_trends"
    /\ last.granularity = "week"
    /\ Len(last.ret) = 2
    /\ last.ret[1].date = <<2024, 2>>
    /\ last.ret[2].date = <<2024, 1>>
    /\ last.ret[1].positive = 2
    /\ last.ret[1].negative = 0
    /\ last.ret[2].negative = 1

(* the posts get_sentiment_trends counted, over all buckets and labels *)
TrendTotal(ret) ==
    SumFn([i \in 1..Len(ret) |-> SumFn([l \in Labels |-> ret[i][l]])])

(* C20: get_sentiment_trends applies the lower bound created_at >= now - days
   exactly when start_date and end_date are both unset; with start_date set the
   lower bound is start_date; with end_date alone there is no lower bound. *)
C20_ImplicitLowerBound ==
    last.op = "get_sentiment_trends" =>
        LET a == last.args.start_date
            b == last.args.end_date
            cutoff == DaysBefore(last.now, last.days)
            lower(p) ==
                IF a # NoDate THEN LexLeq(a, p.created_at)
                ELSE IF b = NoDate THEN LexLeq(cutoff, p.created_at)
                ELSE TRUE
            upper(p) == b # NoDate => LexLeq(p.created_at, b)
            counted == {p \in posts : lower(p) /\ upper(p)}
        IN  /\ TrendTotal(last.ret) = Cardinality(counted)
            /\ {last.ret[i].date : i \in 1..Len(last.ret)}
                  = {TrendBucket(p, last.granularity) : p \in counted}

(* end_date alone: a post older than now - days is counted *)
C20_Witness ==
    /\ last.op = "get_sentiment_trends"
    /\ last.args.start_date = NoDate
    /\ last.args.end_date = TMid
    /\ last.days = 1
    /\ TrendTotal(last.ret) = 2
    /\ \E p \in posts : p.created_at = T1
    /\ \E p \in posts : p.created_at = T2

-----------------------------------------------------------------------------
(* Week buckets around a turn of the year *)

(* 2024-12-30, the Monday of the ISO week that holds 2025-01-01 *)
TDec30 == <<2024, 365, 0>>

WeekDates == {T1, T2, TDec30, T3}

WeekPostInputs ==
    {MkPost(PulsePostName[i], d, "positive", 80) :
        i \in 1..MaxPulsePosts, d \in WeekDates}

DoSavePostWeeks == \E pd \in WeekPostInputs : save_post(pd, T3)

DoTrendsWeeks ==
    \E g \in {"day", "week"} :
        get_sentiment_trends(DefaultDays, [NoFilter EXCEPT !.start_date = T1], g, NowT)

NextWeeks == DoSavePostWeeks \/ DoTrendsWeeks

SpecWeeks == Init /\ [][NextWeeks]_vars

(* the ISO 8601 week of a date: the year and week number of its Thursday *)
IsoWeek(ts) ==
    LET y == ts[1]
        wd == (Jan1Weekday(y) + ts[2] - 1) % 7
        th == ts[2] + 3 - wd
    IN  IF th < 1 THEN <<y - 1, (th + YearLen(y - 1) - 1) \div 7 + 1>>
        ELSE IF th > YearLen(y) THEN <<y + 1, (th - YearLen(y) - 1) \div 7 + 1>>
        ELSE <<y, (th - 1) \div 7 + 1>>

(* C21: with granularity 'week' two posts share a bucket exactly when their dates
   fall in the same ISO week: the result has one entry per ISO week that holds a
   matching post, and the entry counts the matching posts of that ISO week. *)
C21_IsoWeekBuckets ==
    (last.op = "get_sentiment_trends" /\ last.granularity = "week") =>
        LET scope == {p \in posts : InTrendScope(p, last.args, last.days, last.now)}
            weeks == {IsoWeek(p.created_at) : p \in scope}
        IN  /\ Len(last.ret) = Cardinality(weeks)
            /\ \A w \in weeks :
                  \E i \in 1..Len(last.ret) :
                      SumFn([l \in Labels |-> last.ret[i][l]])
                         = Cardinality({p \in scope : IsoWeek(p.created_at) = w})

-----------------------------------------------------------------------------
(* Date ranges in every consumer, date-only bounds included *)

(* the date-only string '2024-01-01', as validate_date_param hands it on *)
T1Day == <<2024, 1>>

RangePostInputs ==
    {MkPost(PostName[i], d, "positive", 80) : i \in 1..MaxPosts, d \in {T1, T1Noon, T2}}

RangeBounds ==
    {<<NoDate, T1Day>>, <<T1Day, T1Day>>, <<T1Noon, T1Noon>>, <<T1Noon, NoDate>>}

RangeFilter(r) == [NoFilter EXCEPT !.start_date = r[1], !.end_date = r[2]]

DoSavePostRange == \E pd \in RangePostInputs : save_post(pd, T2)

DoSaveTickerRange == save_ticker("AAPL", NONE, NONE, NONE)

DoLinkTickersRange == \E p \in PostIds : link_post_to_tickers(p, <<"AAPL">>)

DoGetPostsFilteredRange ==
    \E r \in RangeBounds : get_posts_filtered(RangeFilter(r), DefaultLimit, 0)

DoCountPostsFilteredRange == \E r \in RangeBounds : count_posts_filtered(RangeFilter(r))

DoStatsRange == \E r \in RangeBounds : get_sentiment_stats(RangeFilter(r))

DoTrendsBounds ==
    \E r \in RangeBounds :
        get_sentiment_trends(DefaultDays, RangeFilter(r), "day", NowT)

DoMarketPulseBounds == \E r \in RangeBounds : get_market_pulse(r[1], r[2])

DoSentimentByTickerBounds ==
    \E r \in RangeBounds : get_sentiment_by_ticker(<<"AAPL">>, r[1], r[2])

NextRange ==
    \/ DoSavePostRange \/ DoSaveTickerRange \/ DoLinkTickersRange
    \/ DoGetPostsFilteredRange \/ DoCountPostsFilteredRange \/ DoStatsRange
    \/ DoTrendsBounds \/ DoMarketPulseBounds \/ DoSentimentByTickerBounds

SpecRange == Init /\ [][NextRange]_vars

(* the posts of an inclusive range: a bound that names a day without a time covers
   the whole of that day *)
InRangeInclusive(p, start_date, end_date) ==
    /\ TruthyDate(start_date) => LexLeq(start_date, p.created_at)
    /\ TruthyDate(end_date) =>
          IF Len(end_date) = 2 THEN LexLeq(DateOf(p.created_at), end_date)
          ELSE LexLeq(p.created_at, end_date)

RangeScope(start_date, end_date) ==
    {p \in posts : InRangeInclusive(p, start_date, end_date)}

(* C22: date ranges are inclusive on both ends in every consumer. A post created on
   start_date or on end_date, a post created later in the day a date-only end_date
   names included, is in the listing, the count, the statistics, the trends, the
   market pulse and the per-ticker sentiment; a post outside the range is in none. *)
C22_InclusiveRanges ==
    /\ last.op = "get_posts_filtered" =>
          {last.ret[i].id : i \in 1..Len(last.ret)}
             = {p.id : p \in RangeScope(last.args.start_date, last.args.end_date)}
    /\ last.op = "count_posts_filtered" =>
          last.ret = Cardinality(RangeScope(last.args.start_date, last.args.end_date))
    /\ (last.op = "get_sentiment_stats" /\ last.ok) =>
          last.ret.total = Cardinality(RangeScope(last.args.start_date, last.args.end_date))
    /\ last.op = "get_sentiment_trends" =>
          TrendTotal(last.ret)
             = Cardinality(RangeScope(last.args.start_date, last.args.end_date))
    /\ last.op = "get_market_pulse" =>
          SumFn(last.ret.overall_market_sentiment.distribution)
             = Cardinality(RangeScope(last.args.start_date, last.args.end_date))
    /\ last.op = "get_sentiment_by_ticker" =>
          LET linked == {p \in RangeScope(last.args.start_date, last.args.end_date) :
                            "AAPL" \in SymbolsOf(LinkedIds(post_tickers, p.id))}
          IN  IF linked = {} THEN last.ret = << >>
              ELSE /\ Len(last.ret) = 1
                   /\ SumFn(last.ret[1].sentiments) = Cardinality(linked)

-----------------------------------------------------------------------------
(* Frame of the link tables *)

(* the rows of a link table that belong to other posts than post_id are the same
   in both tables *)
SameLinksOfOthers(before, after, post_id) ==
    \A e \in BagToSet(before) \cup BagToSet(after) :
        e[1] # post_id => CopiesIn(e, before) = CopiesIn(e, after)

(* C26: link rows change only through a linking call for that post and dimension.
   link_post_to_tickers(p, ...) leaves the ticker links of every other post and all
   industry and sector links unchanged; link_post_to_industries_and_sectors(p, ...)
   leaves every ticker link and the industry and sector links of every other post
   unchanged; save_post (a re-save included), save_ticker (an update included) and
   the reads leave every link row unchanged. *)
C26_LinkFrame ==
    [][/\ last'.op = "link_post_to_tickers" =>
             /\ SameLinksOfOthers(post_tickers, post_tickers', last'.post_id)
             /\ post_industries' = post_industries
             /\ post_sectors' = post_sectors
       /\ last'.op = "link_post_to_industries_and_sectors" =>
             /\ post_tickers' = post_tickers
             /\ SameLinksOfOthers(post_industries, post_industries', last'.post_id)
             /\ SameLinksOfOthers(post_sectors, post_sectors', last'.post_id)
       /\ last'.op \notin {"link_post_to_tickers", "link_post_to_industries_and_sectors"} =>
             /\ post_tickers' = post_tickers
             /\ post_industries' = post_industries
             /\ post_sectors' = post_sectors]_vars

(* a ticker relink of a post that had ticker links and has sector links, while
   another post holds ticker links *)
C26_Witness ==
    /\ last.op = "link_post_to_tickers"
    /\ last.old # {}
    /\ LinkedIds(post_tickers, last.post_id) # last.old
    /\ LinkedIds(post_sectors, last.post_id) # {}
    /\ \E e \in BagToSet(post_tickers) : e[1] # last.post_id

-----------------------------------------------------------------------------
(* Recent posts, page by page *)

RecentPostInputs ==
    {MkPost(PulsePostName[i], d, "positive", 80) :
        i \in 1..MaxPulsePosts, d \in {T1, T2}}

(* page sizes and offsets around the size of the store; -1 is what the route
   /api/posts?limit=-1 passes on, its int() being the only check *)
RecentLimits == {-1, 0, 1, 2, DefaultLimit}

RecentOffsets == {0, 1, MaxPulsePosts, MaxPulsePosts + 1}

DoSavePostRecent == \E pd \in RecentPostInputs : save_post(pd, T2)

DoGetRecentPosts ==
    \E limit \in RecentLimits, offset \in RecentOffsets : get_recent_posts(limit, offset)

NextRecent == DoSavePostRecent \/ DoGetRecentPosts

SpecRecent == Init /\ [][NextRecent]_vars

(* C27: get_recent_posts(limit, offset) returns the posts at positions offset ..
   offset + limit - 1 of the store ordered by created_at descending: at most limit
   posts, each no older than the one after it, and the empty list, not an error,
   when the store is empty or the offset is past the end. *)
C27_RecentPage ==
    last.op = "get_recent_posts" =>
        LET n == Cardinality(posts)
            ret == last.ret
        IN  /\ last.ok
            /\ Len(ret) <= last.limit
            /\ \A i \in 1..(Len(ret) - 1) :
                  LexLeq(ret[i + 1].created_at, ret[i].created_at)
            /\ (n = 0 \/ last.offset >= n) => ret = << >>
            /\ \E ordered \in OrderByCreatedDesc(posts) :
                  /\ \A i \in 1..Len(ret) :
                        ret[i] = _row_to_post(ordered[last.offset + i])
                  /\ \A k \in 1..n :
                        (last.offset < k /\ k <= last.offset + last.limit) =>
                            k - last.offset <= Len(ret)

-----------------------------------------------------------------------------
(* api_utils: validate_pagination_params *)

(* Python values of the documented argument types: None, an int, a string *)
PyNone == [t |-> "none", v |-> 0, txt |-> ""]

PyInt(n) == [t |-> "int", v |-> n, txt |-> ""]

PyStr(s) == [t |-> "str", v |-> 0, txt |-> s]

(* bool(x): None, 0 and '' are falsy *)
Truthy(x) ==
    CASE x.t = "none" -> FALSE
      [] x.t = "int" -> x.v # 0
      [] x.t = "str" -> x.txt # ""

(* int() of the strings of the model that are integer literals; int() of any
   other string raises ValueError *)
IntLiterals ==
    [s \in {"-1", "0", "1", "2", "1000", "1001"} |->
        CASE s = "-1" -> -1 [] s = "0" -> 0 [] s = "1" -> 1 [] s = "2" -> 2
          [] s = "1000" -> 1000 [] s = "1001" -> 1001]

(* int(x): [ok, v] *)
PyIntOf(x) ==
    CASE x.t = "int" -> [ok |-> TRUE, v |-> x.v]
      [] x.t = "str" -> IF x.txt \in DOMAIN IntLiterals
                        THEN [ok |-> TRUE, v |-> IntLiterals[x.txt]]
                        ELSE [ok |-> FALSE, v |-> 0]
      [] x.t = "none" -> [ok |-> FALSE, v |-> 0]

(* int(x) if x else default *)
IntOrDefault(x, default) == IF Truthy(x) THEN PyIntOf(x) ELSE [ok |-> TRUE, v |-> default]

ValidatePagination(page, limit, max_limit) ==
    LET p == IntOrDefault(page, 1)
        l == IntOrDefault(limit, 50)
    IN  IF ~p.ok \/ ~l.ok
        THEN [ok |-> FALSE, err |-> "ValueError", msg |-> "Invalid pagination parameters"]
        ELSE IF p.v < 1
        THEN [ok |-> FALSE, err |-> "ValueError", msg |-> "Page must be >= 1"]
        ELSE IF l.v < 1
        THEN [ok |-> FALSE, err |-> "ValueError", msg |-> "Limit must be >= 1"]
        ELSE IF l.v > max_limit
        THEN [ok |-> FALSE, err |-> "ValueError", msg |-> "Limit cannot exceed"]
        ELSE [ok |-> TRUE, page |-> p.v, limit |-> l.v]

validate_pagination_params ==
    /\ last.op = "pagination_input"
    /\ last' = [op |-> "validate_pagination_params", page |-> last.page,
                limit |-> last.limit, max_limit |-> last.max_limit,
                result |-> ValidatePagination(last.page, last.limit, last.max_limit)]
    /\ UNCHANGED <<tables, saved, conns>>

PaginationValues ==
    {PyNone} \cup {PyInt(n) : n \in {-1, 0, 1, 2, 1000, 1001}}
             \cup {PyStr(s) : s \in {"", "0", "1", "2", "1001", "abc", "1.5"}}

(* the default maximum page size and a smaller one *)
MaxLimits == {1000, 10}

InitPagination ==
    /\ posts = {} /\ tickers = {} /\ sectors = {} /\ industries = {}
    /\ post_tickers = EmptyBag /\ post_industries = EmptyBag /\ post_sectors = EmptyBag
    /\ saved = [id \in {} |-> 0]
    /\ conns = [c \in Clients |-> IdleConn]
    /\ last \in {[op |-> "pagination_input", page |-> p, limit |-> l, max_limit |-> m] :
                    p \in PaginationValues, l \in PaginationValues, m \in MaxLimits}

NextPagination == validate_pagination_params

SpecPagination == InitPagination /\ [][NextPagination]_vars

Supplied(x) == x.t # "none"

(* the argument is an int or an integer literal, with a value of at least lo *)
IsIntegerFrom(x, lo) == PyIntOf(x).ok /\ lo <= PyIntOf(x).v

(* C28: validate_pagination_params rejects with ValueError every supplied page
   that is not an integer >= 1 and every supplied limit that is not an integer in
   1..max_limit, a supplied 0 included; when it returns, page >= 1 and
   1 <= limit <= max_limit, a supplied value is returned as its integer, and
   page 1 and limit 50 stand in only for an absent parameter. *)
C28_PaginationValidated ==
    last.op = "validate_pagination_params" =>
        LET r == last.result
        IN  /\ (Supplied(last.page) /\ ~IsIntegerFrom(last.page, 1)) => ~r.ok
            /\ (Supplied(last.limit)
                   /\ ~(IsIntegerFrom(last.limit, 1)
                           /\ PyIntOf(last.limit).v <= last.max_limit)) => ~r.ok
            /\ ~r.ok => r.err = "ValueError"
            /\ r.ok =>
                  /\ r.page >= 1
                  /\ 1 <= r.limit /\ r.limit <= last.max_limit
                  /\ r.page = (IF Supplied(last.page) THEN PyIntOf(last.page).v ELSE 1)
                  /\ r.limit = (IF Supplied(last.limit) THEN PyIntOf(last.limit).v ELSE 50)

-----------------------------------------------------------------------------
(* Trends against statistics, under one filter *)

(* dimension criteria with an explicit start_date and an optional end_date *)
AgreeDims ==
    {<<NONE, NONE, NONE>>, <<"AAPL", NONE, NONE>>, <<NONE, NONE, "Technology">>,
     <<"AAPL", "Semiconductors", "Technology">>}

AgreeFilters ==
    {MkFilter(d[1], d[2], d[3], NONE, r[1], r[2]) :
        d \in AgreeDims, r \in {<<T1, NoDate>>, <<T2, NoDate>>, <<T1, T1>>}}

DoTrendsAgree ==
    \E f \in AgreeFilters, g \in {"day", "week"} :
        get_sentiment_trends(DefaultDays, f, g, NowT)

DoStatsAgree == \E f \in AgreeFilters : get_sentiment_stats(f)

NextAgree ==
    \/ DoSavePostQuery \/ DoSaveTickerQuery \/ DoLinkTickersQuery \/ DoLinkDimsQuery
    \/ DoTrendsAgree \/ DoStatsAgree

SpecAgree == Init /\ [][NextAgree]_vars

(* C30: trends and statistics agree. For every store state, granularity and filter
   over ticker, industry and sector with an explicit start_date, the counts of
   get_sentiment_trends summed over all buckets and labels equal the total of
   get_sentiment_stats under the same filter, the bucket keys are pairwise
   distinct, and every matching post falls in exactly one bucket. *)
C30_TrendsAgreeWithStats ==
    /\ (last.op = "get_sentiment_trends" /\ TruthyDate(last.args.start_date)) =>
          /\ TrendTotal(last.ret) = SentimentStats(last.args).total
          /\ \A i, j \in 1..Len(last.ret) :
                last.ret[i].date = last.ret[j].date => i = j
          /\ \A p \in posts :
                Matches(p, last.args) =>
                    Cardinality({i \in 1..Len(last.ret) :
                        last.ret[i].date = TrendBucket(p, last.granularity)}) = 1
    /\ (last.op = "get_sentiment_stats" /\ last.ok
           /\ TruthyDate(last.args.start_date)) =>
          \A g \in {"day", "week"} :
              last.ret.total
                 = SumFn([d \in {TrendBucket(p, g) :
                                   p \in {q \in posts :
                                       TrendsJoin(q, last.args, DefaultDays, NowT) > 0}} |->
                             SumFn([l \in Labels |->
                                 TrendEntry(d, last.args, DefaultDays, g, NowT)[l]])])

(* a sector-filtered weekly trend that counts one post and leaves out another
   post inside the date range *)
C30_Witness ==
    /\ last.op = "get_sentiment_trends"
    /\ last.granularity = "week"
    /\ TruthyDate(last.args.start_date)
    /\ TruthyStr(last.args.sector)
    /\ TrendTotal(last.ret) = 1
    /\ SentimentStats(last.args).total = 1
    /\ \E p \in posts :
          /\ ~Matches(p, last.args)
          /\ Matches(p, [last.args EXCEPT !.sector = NONE, !.ticker = NONE,
                                          !.industry = NONE])

-----------------------------------------------------------------------------
(* Calls step by step: _get_connection around the statements of the body.
   sqlite3 opens the transaction before the first INSERT / DELETE of a
   connection; SQLite lets one connection write at a time, and the other
   connections read the committed database until the writer commits. *)

(* the committed database *)
DbOf ==
    [posts |-> posts, tickers |-> tickers, sectors |-> sectors,
     industries |-> industries, post_tickers |-> post_tickers,
     post_industries |-> post_industries, post_sectors |-> post_sectors]

WriteOps ==
    {"save_post", "save_ticker", "link_post_to_tickers",
     "link_post_to_industries_and_sectors"}

Stmt(k, s) == [k |-> k, s |-> s]

(* the statements of the body of a call, in program order; a lookup SELECT goes
   with the INSERT it feeds *)
Statements(op, a) ==
    CASE op = "save_post" -> <<Stmt("insert_post", a.id)>>
      [] op = "save_ticker" ->
            (IF TruthyStr(a.sector) THEN <<Stmt("sector", a.sector)>> ELSE << >>)
            \o (IF TruthyStr(a.industry) THEN <<Stmt("industry", a.industry)>> ELSE << >>)
            \o <<Stmt("upsert", a.symbol)>>
      [] op = "link_post_to_tickers" ->
            <<Stmt("delete_tickers", a.id)>>
            \o [i \in 1..Len(a.symbols) |-> Stmt("link_ticker", a.symbols[i])]
      [] op = "link_post_to_industries_and_sectors" ->
            <<Stmt("delete_industries", a.id), Stmt("delete_sectors", a.id)>>
            \o [i \in 1..Len(a.industries) |-> Stmt("link_industry", a.industries[i])]
            \o [i \in 1..Len(a.sectors) |-> Stmt("link_sector", a.sectors[i])]
      [] OTHER -> <<Stmt("select", "")>>

(* the database after one write statement of the call with arguments a *)
Apply(stmt, db, a) ==
    CASE stmt.k = "insert_post" ->
            [db EXCEPT !.posts = InsertOrReplacePost(@, PostRow(a.pd, T2))]
      [] stmt.k = "sector" ->
            [db EXCEPT !.sectors = InsertOrIgnoreName(@, stmt.s, UNIQUE_sectors_name)]
      [] stmt.k = "industry" ->
            [db EXCEPT !.industries =
                InsertOrIgnoreName(@, stmt.s, UNIQUE_industries_name)]
      [] stmt.k = "upsert" ->
            [db EXCEPT !.tickers =
                UpsertTicker(@, a.symbol, a.company,
                    IF TruthyStr(a.sector) THEN SelectIdByName(db.sectors, a.sector)
                    ELSE 0,
                    IF TruthyStr(a.industry)
                    THEN SelectIdByName(db.industries, a.industry) ELSE 0)]
      [] stmt.k = "delete_tickers" ->
            [db EXCEPT !.post_tickers = DeleteLinksOf(@, a.id)]
      [] stmt.k = "link_ticker" ->
            [db EXCEPT !.post_tickers =
                InsertLinks(@, a.id, <<SelectIdBySymbol(db.tickers, stmt.s)>>,
                            UNIQUE_post_tickers)]
      [] stmt.k = "delete_industries" ->
            [db EXCEPT !.post_industries = DeleteLinksOf(@, a.id)]
      [] stmt.k = "delete_sectors" ->
            [db EXCEPT !.post_sectors = DeleteLinksOf(@, a.id)]
      [] stmt.k = "link_industry" ->
            [db EXCEPT !.post_industries =
                InsertLinks(@, a.id, <<SelectIdByName(db.industries, stmt.s)>>,
                            UNIQUE_post_industries)]
      [] stmt.k = "link_sector" ->
            [db EXCEPT !.post_sectors =
                InsertLinks(@, a.id, <<SelectIdByName(db.sectors, stmt.s)>>,
                            UNIQUE_post_sectors)]

(* building the parameters of the INSERT raises KeyError on a missing key *)
RaisesKeyError(stmt, a) ==
    /\ stmt.k = "insert_post"
    /\ \/ ~(RequiredPostKeys \subseteq DOMAIN a.pd)
       \/ ~(RequiredSentimentKeys \subseteq DOMAIN a.pd.sentiment)

(* SELECT p.id FROM posts p JOIN post_tickers pt JOIN tickers t
   WHERE t.symbol = ? ORDER BY p.created_at DESC: one id per join row *)
RECURSIVE JoinRowIds(_, _)
JoinRowIds(ordered, ticker) ==
    IF ordered = << >> THEN << >>
    ELSE [i \in 1..JoinTickers(Head(ordered), ticker) |-> Head(ordered).id]
         \o JoinRowIds(Tail(ordered), ticker)

PostsByTicker(ticker) ==
    {JoinRowIds(ordered, ticker) :
        ordered \in OrderByCreatedDesc({p \in posts : JoinTickers(p, ticker) > 0})}

RetOf(op, v) == [k \in {op} |-> v]

TickerFilter(symbol) == [NoFilter EXCEPT !.ticker = symbol]

(* what the one SELECT of a read call can return from the committed database *)
ReadResults(op, a) ==
    CASE op = "get_posts_by_ticker" ->
            {RetOf(op, ids) : ids \in PostsByTicker(a.symbol)}
      [] op = "get_post_by_id" ->
            IF \E row \in posts : row.id = a.id
            THEN {RetOf(op, _row_to_post(row)) : row \in {r \in posts : r.id = a.id}}
            ELSE {RetOf(op, [none |-> TRUE])}
      [] op = "count_posts_filtered" ->
            {RetOf(op, CountPostsFiltered(TickerFilter(a.symbol)))}
      [] op = "get_sentiment_stats" ->
            {RetOf(op, SentimentStats(TickerFilter(a.symbol)))}
      [] op = "get_posts_filtered" ->
            {RetOf(op, [i \in 1..Len(ordered) |-> _row_to_post(ordered[i])]) :
                ordered \in {LimitOffset(o, DefaultLimit, 0) :
                    o \in OrderByCreatedDesc(PostsFilteredRows(TickerFilter(a.symbol)))}}

(* sqlite3.connect(self.db_path); the with-block is entered *)
Connect(c, op, a) ==
    /\ conns[c].pc = "idle"
    /\ conns' = [conns EXCEPT ![c] =
                    [IdleConn EXCEPT !.pc = "body", !.open = TRUE, !.op = op,
                                     !.args = a, !.stmts = Statements(op, a),
                                     !.before = IF op \in WriteOps THEN <<DbOf>>
                                                ELSE << >>]]
    /\ UNCHANGED <<tables, last, saved>>

(* another connection holds the write lock *)
Locked(c) == \E d \in Clients \ {c} : conns[d].txn

(* some connection is between the DELETE and the INSERTs of a ticker relink:
   the old links of the post are gone from its working copy and the new ones
   are still to be inserted *)
LinkWriteInFlight ==
    \E d \in Clients :
        /\ conns[d].txn
        /\ conns[d].op = "link_post_to_tickers"
        /\ conns[d].stmts # << >>
        /\ LinkedIds(conns[d].before[1].post_tickers, conns[d].args.id) # {}
        /\ LinkedIds(conns[d].work[1].post_tickers, conns[d].args.id) = {}

(* variant: autocommit, every statement is committed as it is executed *)
Execute_autocommit(c) ==
    LET cn == conns[c]
        stmt == Head(cn.stmts)
    IN  /\ cn.pc = "body"
        /\ cn.stmts # << >>
        /\ IF stmt.k = "select"
           THEN /\ \E r \in ReadResults(cn.op, cn.args) :
                      conns' = [conns EXCEPT ![c].ret = r, ![c].stmts = Tail(@),
                                             ![c].done = @ + 1,
                                             ![c].during = LinkWriteInFlight]
                /\ UNCHANGED tables
           ELSE IF RaisesKeyError(stmt, cn.args)
           THEN /\ conns' = [conns EXCEPT ![c].pc = "except", ![c].err = "KeyError"]
                /\ UNCHANGED tables
           ELSE LET db == Apply(stmt, DbOf, cn.args)
                IN  /\ ~Locked(c)
                    /\ conns' = [conns EXCEPT ![c].txn = TRUE, ![c].work = <<db>>,
                                           ![c].stmts = Tail(@), ![c].done = @ + 1]
                    /\ posts' = db.posts
                    /\ tickers' = db.tickers
                    /\ sectors' = db.sectors
                    /\ industries' = db.industries
                    /\ post_tickers' = db.post_tickers
                    /\ post_industries' = db.post_industries
                    /\ post_sectors' = db.post_sectors
        /\ UNCHANGED <<last, saved>>

(* cursor.execute of the next statement of the body. The first write opens the
   transaction and takes the write lock; a write changes the working copy of
   the transaction and a SELECT of a read call sees the committed database. *)
Execute(c) ==
    LET cn == conns[c]
        stmt == Head(cn.stmts)
    IN  /\ cn.pc = "body"
        /\ cn.stmts # << >>
        /\ IF stmt.k = "select"
           THEN \E r \in ReadResults(cn.op, cn.args) :
                    conns' = [conns EXCEPT ![c].ret = r, ![c].stmts = Tail(@),
                                           ![c].done = @ + 1,
                                           ![c].during = LinkWriteInFlight]
           ELSE IF RaisesKeyError(stmt, cn.args)
           THEN conns' = [conns EXCEPT ![c].pc = "except", ![c].err = "KeyError"]
           ELSE /\ ~Locked(c)
                /\ conns' = [conns EXCEPT
                                ![c].txn = TRUE,
                                ![c].work = <<Apply(stmt,
                                                    IF cn.txn THEN cn.work[1] ELSE DbOf,
                                                    cn.args)>>,
                                ![c].stmts = Tail(@), ![c].done = @ + 1]
        /\ UNCHANGED <<tables, last, saved>>

(* the statement raises (the lock wait timed out, an I/O error): nothing of it
   is applied and control passes to the except clause *)
ExecuteFails(c) ==
    /\ conns[c].pc = "body"
    /\ conns[c].stmts # << >>
    /\ conns' = [conns EXCEPT ![c].pc = "except", ![c].err = "execute"]
    /\ UNCHANGED <<tables, last, saved>>

(* conn.commit() after the body: the working copy becomes the committed
   database in one step *)
Commit(c) ==
    LET cn == conns[c]
    IN  /\ cn.pc = "body"
        /\ cn.stmts = << >>
        /\ IF cn.txn
           THEN /\ posts' = cn.work[1].posts
                /\ tickers' = cn.work[1].tickers
                /\ sectors' = cn.work[1].sectors
                /\ industries' = cn.work[1].industries
                /\ post_tickers' = cn.work[1].post_tickers
                /\ post_industries' = cn.work[1].post_industries
                /\ post_sectors' = cn.work[1].post_sectors
           ELSE UNCHANGED tables
        /\ saved' = IF cn.txn /\ cn.op = "save_post"
                    THEN [id \in DOMAIN saved \cup {cn.args.id} |->
                             IF id = cn.args.id THEN [data |-> cn.args.pd, at |-> T2]
                             ELSE saved[id]]
                    ELSE saved
        /\ conns' = [conns EXCEPT ![c].pc = "finally", ![c].txn = FALSE,
                                  ![c].work = << >>]
        /\ UNCHANGED last

(* variant: there is no finally clause, a failed commit leaves the with-block
   with the connection open *)
CommitFails_noclose(c) ==
    /\ conns[c].pc = "body"
    /\ conns[c].stmts = << >>
    /\ conns[c].txn
    /\ conns' = [conns EXCEPT ![c].pc = "exit", ![c].err = "commit"]
    /\ UNCHANGED <<tables, last, saved>>

(* conn.commit() raises: control passes to the except clause, the transaction
   still open *)
CommitFails(c) ==
    /\ conns[c].pc = "body"
    /\ conns[c].stmts = << >>
    /\ conns[c].txn
    /\ conns' = [conns EXCEPT ![c].pc = "except", ![c].err = "commit"]
    /\ UNCHANGED <<tables, last, saved>>

(* variant: the except clause commits what the body did before it failed *)
Rollback_keep(c) ==
    LET cn == conns[c]
    IN  /\ cn.pc = "except"
        /\ IF cn.txn
           THEN /\ posts' = cn.work[1].posts
                /\ tickers' = cn.work[1].tickers
                /\ sectors' = cn.work[1].sectors
                /\ industries' = cn.work[1].industries
                /\ post_tickers' = cn.work[1].post_tickers
                /\ post_industries' = cn.work[1].post_industries
                /\ post_sectors' = cn.work[1].post_sectors
           ELSE UNCHANGED tables
        /\ conns' = [conns EXCEPT ![c].pc = "finally", ![c].txn = FALSE,
                                  ![c].work = << >>]
        /\ UNCHANGED <<last, saved>>

(* except Exception as e: conn.rollback(); raise e *)
Rollback(c) ==
    /\ conns[c].pc = "except"
    /\ conns' = [conns EXCEPT ![c].pc = "finally", ![c].txn = FALSE,
                              ![c].work = << >>]
    /\ UNCHANGED <<tables, last, saved>>

(* conn.rollback() raises: its exception leaves the except clause, the
   transaction still open on the connection *)
RollbackFails(c) ==
    /\ conns[c].pc = "except"
    /\ conns[c].txn
    /\ conns' = [conns EXCEPT ![c].pc = "finally", ![c].err = "rollback"]
    /\ UNCHANGED <<tables, last, saved>>

(* finally: conn.close(); SQLite discards a transaction still open *)
Close(c) ==
    /\ conns[c].pc = "finally"
    /\ conns' = [conns EXCEPT ![c].pc = "exit", ![c].open = FALSE,
                              ![c].txn = FALSE, ![c].work = << >>]
    /\ UNCHANGED <<tables, last, saved>>

(* the call returns to its caller, or the exception reaches it; the result of
   the call is what the connection record holds at pc = "exit" *)
Return(c) ==
    /\ conns[c].pc = "exit"
    /\ conns' = [conns EXCEPT ![c] = IdleConn]
    /\ UNCHANGED <<tables, last, saved>>

(* the steps of a call that is under way *)
Step(c) ==
    \/ Execute(c) \/ ExecuteFails(c)
    \/ Commit(c) \/ CommitFails(c)
    \/ Rollback(c) \/ RollbackFails(c)
    \/ Close(c) \/ Return(c)

-----------------------------------------------------------------------------
(* A writer and a reader at the same time *)

PostA == MkPost(PostName[1], T1, "positive", 80)

WriteCalls ==
    {<<"save_post", [NoArgs EXCEPT !.id = PostA.id, !.pd = PostA]>>,
     <<"save_post", [NoArgs EXCEPT !.id = PostA.id, !.pd = Without(PostA, "text")]>>,
     <<"save_ticker", [NoArgs EXCEPT !.symbol = "AAPL", !.company = NONE,
                                     !.sector = "Technology", !.industry = NONE]>>,
     <<"save_ticker", [NoArgs EXCEPT !.symbol = "MSFT", !.company = NONE,
                                     !.sector = NONE, !.industry = NONE]>>,
     <<"link_post_to_tickers", [NoArgs EXCEPT !.id = PostA.id, !.symbols = <<"AAPL">>]>>,
     <<"link_post_to_tickers",
       [NoArgs EXCEPT !.id = PostA.id, !.symbols = <<"AAPL", "MSFT">>]>>,
     <<"link_post_to_industries_and_sectors",
       [NoArgs EXCEPT !.id = PostA.id, !.sectors = <<"Technology">>]>>}

ReadCalls ==
    {<<"get_posts_by_ticker", [NoArgs EXCEPT !.symbol = "AAPL"]>>,
     <<"get_post_by_id", [NoArgs EXCEPT !.id = PostA.id]>>,
     <<"get_sentiment_stats", [NoArgs EXCEPT !.symbol = "AAPL"]>>,
     <<"get_posts_filtered", [NoArgs EXCEPT !.symbol = "AAPL"]>>}

DoWrite == \E call \in WriteCalls : Connect("c1", call[1], call[2])

DoRead == \E call \in ReadCalls : Connect("c2", call[1], call[2])

WriterStep == Step("c1")

ReaderStep == Step("c2")

NextTxn == DoWrite \/ DoRead \/ WriterStep \/ ReaderStep

SpecTxn == Init /\ [][NextTxn]_vars

(* the database a connection's transaction leaves when every statement still to
   come has run *)
RECURSIVE RunAll(_, _, _)
RunAll(stmts, db, a) ==
    IF stmts = << >> THEN db ELSE RunAll(Tail(stmts), Apply(Head(stmts), db, a), a)

(* the symbols the post id is linked to in database db *)
LinkedSymbols(db, id) ==
    {t.symbol : t \in {x \in db.tickers : BagIn(<<id, x.id>>, db.post_tickers)}}

(* the ids of the posts of db linked to the symbol *)
PostsLinkedTo(db, symbol) ==
    {p.id : p \in {q \in db.posts : symbol \in LinkedSymbols(db, q.id)}}

(* the result ret of the read call op(a) is what the call returns on database db *)
ReadIsOf(op, a, ret, db) ==
    CASE op = "get_posts_by_ticker" ->
            Range(ret[op]) = PostsLinkedTo(db, a.symbol)
      [] op = "get_posts_filtered" ->
            {ret[op][i].id : i \in 1..Len(ret[op])} = PostsLinkedTo(db, a.symbol)
      [] op = "get_sentiment_stats" ->
            ret[op].total = Cardinality(PostsLinkedTo(db, a.symbol))
      [] op = "get_post_by_id" ->
            IF \E row \in db.posts : row.id = a.id
            THEN \E row \in db.posts : row.id = a.id /\ ret[op] = _row_to_post(row)
            ELSE ret[op] = [none |-> TRUE]

(* C23: each write operation is atomic to readers. A read (get_posts_filtered,
   get_posts_by_ticker, get_sentiment_stats, get_post_by_id) whose SELECT runs
   while a write call of another connection is under way returns what it would
   return on the database before that call or on the database after it: the
   complete old link set of the post or the complete new one, never the state
   between the DELETE and the INSERTs, and never a half-written post. *)
C23_AtomicToReaders ==
    [][\A r \in Clients : \A w \in Clients \ {r} :
          (/\ conns[r].pc = "body"
           /\ conns[r].op \notin WriteOps
           /\ conns'[r].done = conns[r].done + 1
           /\ conns[w].txn) =>
              \/ ReadIsOf(conns[r].op, conns[r].args, conns'[r].ret, conns[w].before[1])
              \/ ReadIsOf(conns[r].op, conns[r].args, conns'[r].ret,
                          RunAll(conns[w].stmts, conns[w].work[1], conns[w].args))]_vars

(* a get_posts_by_ticker whose SELECT ran between the DELETE and the INSERTs of a
   relink of the post, and which returned the post under its old link *)
C23_Witness ==
    /\ conns["c2"].op = "get_posts_by_ticker"
    /\ conns["c2"].done = 1
    /\ conns["c2"].during
    /\ PostA.id \in Range(conns["c2"].ret["get_posts_by_ticker"])

(* C24: a failure of any statement inside a write operation (save_post,
   save_ticker, link_post_to_tickers, link_post_to_industries_and_sectors), or of
   its commit, rolls back the whole operation and is propagated: when the call
   leaves with the exception, the posts, catalog rows and link rows are exactly
   those before the call. *)
C24_FailureRollsBack ==
    \A c \in Clients :
        (conns[c].pc = "exit" /\ conns[c].op \in WriteOps /\ conns[c].err # "") =>
            /\ DbOf = conns[c].before[1]
            /\ ~conns[c].txn

(* a relink that failed after its DELETE, on its way to the caller with the old
   link of the post in place *)
C24_Witness ==
    /\ conns["c1"].pc = "exit"
    /\ conns["c1"].op = "link_post_to_tickers"
    /\ conns["c1"].err = "execute"
    /\ conns["c1"].done >= 1
    /\ LinkedIds(post_tickers, conns["c1"].args.id) # {}

(* C25: every repository operation acquires its own connection, and the
   connection is closed on every exit path: a call under way holds an open
   connection, and once the call has returned or raised, a failure during commit
   or during rollback included, its connection is closed and holds no
   transaction. *)
C25_ConnectionClosed ==
    \A c \in Clients :
        /\ conns[c].pc \in {"body", "except", "finally"} => conns[c].open
        /\ conns[c].pc \in {"exit", "idle"} => (~conns[c].open /\ ~conns[c].txn)

(* a write call leaving with the exception of a rollback that failed after a
   failed commit *)
C25_Witness ==
    /\ conns["c1"].pc = "exit"
    /\ conns["c1"].err = "rollback"
    /\ conns["c1"].stmts = << >>
    /\ ~conns["c1"].open

-----------------------------------------------------------------------------
(* Two writers of one post id *)

(* a second body for the id of PostA, every supplied field different *)
PostB == [MkPost(PostName[1], T2, "negative", 60) EXCEPT !.text = "other"]

PostC == MkPost(PostName[2], T1, "neutral", 70)

RaceBodies == {PostA, PostB, PostC}

SavePostCall(pd) == <<"save_post", [NoArgs EXCEPT !.id = pd.id, !.pd = pd]>>

DoSavePostFirst ==
    \E pd \in {PostA, PostC} : Connect("c1", SavePostCall(pd)[1], SavePostCall(pd)[2])

DoSavePostSecond ==
    \E pd \in {PostB, PostC} : Connect("c2", SavePostCall(pd)[1], SavePostCall(pd)[2])

SecondWriterStep == Step("c2")

NextRace == DoSavePostFirst \/ DoSavePostSecond \/ WriterStep \/ SecondWriterStep

SpecRace == Init /\ [][NextRace]_vars

(* C29: concurrent writers of one post id are last-write-wins with no mixing. The
   store holds exactly one post per saved id; every field of it comes from one
   call, the call for that id that committed last; and a save of one id leaves
   the posts of the other ids as they were committed. *)
C29_LastWriteWins ==
    /\ {r.id : r \in posts} = DOMAIN saved
    /\ \A id \in DOMAIN saved :
          /\ Cardinality({r \in posts : r.id = id}) = 1
          /\ \A r \in posts :
                r.id = id => /\ r = PostRow(saved[id].data, saved[id].at)
                             /\ \E pd \in RaceBodies : r = PostRow(pd, T2)

(* both calls for the one id have committed and are on their way back at the
   same time, the second body stored over the first, the other post in place *)
C29_Witness ==
    /\ conns["c1"].pc = "exit" /\ conns["c1"].err = "" /\ conns["c1"].args.pd = PostA
    /\ conns["c2"].pc = "exit" /\ conns["c2"].err = "" /\ conns["c2"].args.pd = PostB
    /\ PostRow(PostB, T2) \in posts
    /\ PostRow(PostC, T2) \in posts

====
